---- MODULE Spec2Model ----
(***************************************************************************)
(* Neon Invaders: the simulation core of src/src/game.py,                  *)
(* src/src/entities.py and src/src/performance.py as a state machine.      *)
(* Rectangles follow pygame.Rect: integer x, y, w, h with right = x + w,   *)
(* bottom = y + h, centerx = x + w // 2.  Times are pygame.time.get_ticks  *)
(* milliseconds.  Every handler is an operator from a game record (and the *)
(* handler's inputs) to a game record; the actions apply them to the       *)
(* variables.                                                              *)
(***************************************************************************)
EXTENDS Integers, Sequences, FiniteSets, TLC

VARIABLES
    state,              \* Game.state
    running,            \* Game.running
    selected_index,     \* Game.settings_menu.selected_index
    wave,               \* Game.wave
    high_score,         \* Game.high_score
    highscore_json,     \* the file highscore.json of the working directory
    particles_enabled,  \* Game.particles_enabled
    sound_enabled,      \* Game.sound_enabled
    music_enabled,      \* Game.music_enabled
    player,             \* Game.player (NoPlayer before the first reset_game)
    eg,                 \* Game.enemy_group
    player_bullets,     \* Game.player_bullets, in insertion order
    enemy_bullets,      \* Game.enemy_bullets, in insertion order
    bonuses,            \* Game.bonuses, in insertion order
    explosions,         \* Game.explosions, in insertion order
    pool,               \* performance.bullet_pool
    now,                \* pygame.time.get_ticks()
    frame,              \* number of Game.update() calls so far
    ev                  \* what the last handler did (sounds played, kills, ...)

vars == <<state, running, selected_index, wave, high_score, highscore_json, particles_enabled,
          sound_enabled, music_enabled, player, eg,
          player_bullets, enemy_bullets, bonuses, explosions, pool, now, frame, ev>>

----------------------------------------------------------------------------
(* src/config.py *)
SCREEN_WIDTH == 800
SCREEN_HEIGHT == 600
FPS == 60
PLAYER_SPEED == 5
PLAYER_LIVES == 3
PLAYER_SHOOT_COOLDOWN == 250
ENEMY_SPEED_X == 1
ENEMY_SPEED_Y == 20
ENEMY_BULLET_SPEED == 3
ENEMY_ROWS == 5
ENEMY_COLS == 10
ENEMY_SPACING_X == 70
ENEMY_SPACING_Y == 40
ENEMY_START_Y == 50
BULLET_SPEED == 7
BULLET_WIDTH == 6
BULLET_HEIGHT == 10
BONUS_FALL_SPEED == 2
BONUS_SCORE == 50
EXTRA_LIFE == 0
FREEZE_ENEMIES == 1
TRIPLE_SHOT == 2
SHIELD == 3
RAPID_FIRE == 4
FREEZE_DURATION == 5000
RAPID_FIRE_DURATION == 5000
SHIELD_DURATION == 3000
ENEMY_SCORE == 10
WAVE_CLEAR_BONUS == 100

MENU == "menu"
SETTINGS == "settings"
PLAYING == "playing"
PAUSED == "paused"
GAME_OVER == "game_over"
WAVE_CLEAR == "wave_clear"

(* src/src/sprites.py: the sizes of the cached surfaces *)
PLAYER_W == 40
PLAYER_H == 30
ENEMY_W == 26
ENEMY_H == 20
ELITE_W == 30
ELITE_H == 24
BONUS_SIZE == 36
EXPLOSION_FRAMES == 8

(* other literals of the code *)
EDGE_MARGIN == 10
DROP_STEP == 2
PLAYER_ZONE_BUFFER == 50
FORMATION_LEFT == 50
SPECIAL_ATTACK_COOLDOWN == 5000
POOL_SIZE == 200
EXPLOSION_ANIMATION_SPEED == 2
ELITE_SPREAD_STEP == 2
TRIPLE_OFFSET_X == 10
TRIPLE_OFFSET_Y == 5
\* src/src/settings_menu.py: the flattened settings and the place of
\* Particles among them
SETTINGS_COUNT == 6
SOUND_INDEX == 0
MUSIC_INDEX == 1
PARTICLES_INDEX == 4
PLAYER_START_OFFSET_Y == 50

----------------------------------------------------------------------------
(* pygame.Rect *)
Right(r) == r.x + r.w
Bottom(r) == r.y + r.h
CenterX(r) == r.x + (r.w \div 2)
CenterY(r) == r.y + (r.h \div 2)

\* Rect.colliderect for rectangles of positive size
colliderect(a, b) ==
    /\ a.x < b.x + b.w
    /\ b.x < a.x + a.w
    /\ a.y < b.y + b.h
    /\ b.y < a.y + a.h

\* Python's int(): truncation toward zero of n / d, d > 0
Trunc(n, d) == IF n >= 0 THEN n \div d ELSE -((-n) \div d)

Min(a, b) == IF a <= b THEN a ELSE b

RECURSIVE SortedSeq(_)
\* the members of a finite set of integers in ascending order
SortedSeq(S) ==
    IF S = {} THEN <<>>
    ELSE LET m == CHOOSE v \in S : \A u \in S : v <= u
         IN <<m>> \o SortedSeq(S \ {m})

SeqRange(s) == {s[i] : i \in 1..Len(s)}

----------------------------------------------------------------------------
(* entities.Player *)

\* Game.player before the first reset_game (None)
NoPlayer ==
    [exists |-> FALSE, x |-> 0, y |-> 0, lives |-> 0, last_shot_time |-> 0,
     score |-> 0, triple_shot_active |-> FALSE, rapid_fire_active |-> FALSE,
     rapid_fire_end_time |-> 0, shield_active |-> FALSE, shield_end_time |-> 0]

\* Player.__init__(x, y): the rect is centred on (x, y)
NewPlayer(cx, cy) ==
    [exists |-> TRUE, x |-> cx - (PLAYER_W \div 2), y |-> cy - (PLAYER_H \div 2),
     lives |-> PLAYER_LIVES, last_shot_time |-> 0, score |-> 0,
     triple_shot_active |-> FALSE, rapid_fire_active |-> FALSE,
     rapid_fire_end_time |-> 0, shield_active |-> FALSE, shield_end_time |-> 0]

PlayerRect(p) == [x |-> p.x, y |-> p.y, w |-> PLAYER_W, h |-> PLAYER_H]

\* the cooldown Player.can_shoot compares with
EffectiveCooldown(p, current_time) ==
    IF p.rapid_fire_active /\ current_time < p.rapid_fire_end_time
    THEN PLAYER_SHOOT_COOLDOWN \div 3
    ELSE PLAYER_SHOOT_COOLDOWN

\* a faulty can_shoot that lets the shot go when the cooldown has just been
\* reached: C9 tells it from the program's
Player_can_shoot_at_cooldown(p, current_time) ==
    current_time - p.last_shot_time >= EffectiveCooldown(p, current_time)

\* Player.can_shoot(current_time)
Player_can_shoot(p, current_time) ==
    current_time - p.last_shot_time > EffectiveCooldown(p, current_time)

\* Bullet.__init__ and its subclasses: a rect of the bullet sprite centred on
\* (cx, cy).  x_velocity is kept in tenths (-0.2 is -2).  id is the object's
\* identity, given when the pool hands the bullet out.
NewBullet(cls, cx, cy, speed, owner, x_velocity, x_direction) ==
    [id |-> 0, cls |-> cls,
     x |-> cx - (BULLET_WIDTH \div 2), y |-> cy - (BULLET_HEIGHT \div 2),
     speed |-> speed, owner |-> owner,
     x_velocity |-> x_velocity, x_direction |-> x_direction]

BulletRect(b) == [x |-> b.x, y |-> b.y, w |-> BULLET_WIDTH, h |-> BULLET_HEIGHT]

\* Player.shoot: the bullets created, in order
Player_shoot_bullets(p) ==
    LET cx == CenterX(PlayerRect(p))
        top == p.y
    IN IF p.triple_shot_active
       THEN << NewBullet("TripleShotBullet", cx - TRIPLE_OFFSET_X, top,
                         -BULLET_SPEED, "player", -2, 0),
               NewBullet("TripleShotBullet", cx, top - TRIPLE_OFFSET_Y,
                         -BULLET_SPEED, "player", 0, 0),
               NewBullet("TripleShotBullet", cx + TRIPLE_OFFSET_X, top,
                         -BULLET_SPEED, "player", 2, 0) >>
       ELSE << NewBullet("Bullet", cx, top, -BULLET_SPEED, "player", 0, 0) >>

\* a faulty shoot that leaves the triple shot armed: C8 tells it from the
\* program's
Player_shoot_still_armed(p, current_time) ==
    [p EXCEPT !.last_shot_time = current_time]

\* Player.shoot: the player afterwards
Player_shoot(p, current_time) ==
    [p EXCEPT !.last_shot_time = current_time, !.triple_shot_active = FALSE]

\* a faulty hit whose shield absorbs without being used up: C3 tells it from
\* the program's
Player_hit_lasting(p, t) ==
    IF p.shield_active /\ t < p.shield_end_time
    THEN p
    ELSE [p EXCEPT !.lives = p.lives - 1]

\* Player.hit() at clock t
Player_hit(p, t) ==
    IF p.shield_active /\ t < p.shield_end_time
    THEN [p EXCEPT !.shield_active = FALSE, !.shield_end_time = 0]
    ELSE [p EXCEPT !.lives = p.lives - 1]

\* a faulty is_alive that counts a player with no lives as alive: C14 tells
\* it from the program's
Player_is_alive_at_zero(p) == p.lives >= 0

Player_is_alive(p) == p.lives > 0

Player_add_life(p) == [p EXCEPT !.lives = p.lives + 1]

Player_activate_rapid_fire(p, current_time) ==
    [p EXCEPT !.rapid_fire_active = TRUE,
              !.rapid_fire_end_time = current_time + RAPID_FIRE_DURATION]

Player_activate_shield(p, current_time) ==
    [p EXCEPT !.shield_active = TRUE,
              !.shield_end_time = current_time + SHIELD_DURATION]

Player_activate_triple_shot(p) == [p EXCEPT !.triple_shot_active = TRUE]

\* a faulty update that still moves a player standing at an edge: C32 tells
\* it from the program's
Player_update_from_the_edge(p, keys, t) ==
    LET x1 == IF keys.left /\ p.x >= 0 THEN p.x - PLAYER_SPEED ELSE p.x
        x2 == IF keys.right /\ x1 + PLAYER_W <= SCREEN_WIDTH
              THEN x1 + PLAYER_SPEED ELSE x1
    IN [p EXCEPT !.x = x2]

\* a faulty update that lets the timed effects run on: C40 tells it from the
\* program's
Player_update_without_expiry(p, keys, t) ==
    LET x1 == IF keys.left /\ p.x > 0 THEN p.x - PLAYER_SPEED ELSE p.x
        x2 == IF keys.right /\ x1 + PLAYER_W < SCREEN_WIDTH
              THEN x1 + PLAYER_SPEED ELSE x1
    IN [p EXCEPT !.x = x2]

\* Player.update(keys) at clock t; keys = [left, right] held
Player_update(p, keys, t) ==
    LET x1 == IF keys.left /\ p.x > 0 THEN p.x - PLAYER_SPEED ELSE p.x
        x2 == IF keys.right /\ x1 + PLAYER_W < SCREEN_WIDTH
              THEN x1 + PLAYER_SPEED ELSE x1
    IN [p EXCEPT !.x = x2,
                 !.rapid_fire_active =
                     IF p.rapid_fire_active /\ t > p.rapid_fire_end_time
                     THEN FALSE ELSE p.rapid_fire_active,
                 !.shield_active =
                     IF p.shield_active /\ t > p.shield_end_time
                     THEN FALSE ELSE p.shield_active]

----------------------------------------------------------------------------
(* entities.Enemy *)

EnemyRect(e) ==
    [x |-> e.x, y |-> e.y,
     w |-> IF e.is_elite THEN ELITE_W ELSE ENEMY_W,
     h |-> IF e.is_elite THEN ELITE_H ELSE ENEMY_H]

\* Enemy.__init__(x, y, row, is_elite); id is the object's identity
NewEnemy(id, x, y, row, is_elite) ==
    [id |-> id, x |-> x, y |-> y, row |-> row, is_elite |-> is_elite,
     direction |-> 1, drop_distance |-> 0, last_special_attack |-> 0]

\* a faulty update that keeps advancing while it drops: C30 tells it from the
\* program's
Enemy_update_sliding(e) ==
    LET across == IF e.is_elite THEN Trunc(ENEMY_SPEED_X * e.direction * 3, 2)
                  ELSE ENEMY_SPEED_X * e.direction
    IN IF e.drop_distance > 0
       THEN [e EXCEPT !.x = e.x + across,
                      !.y = e.y + Min(e.drop_distance, DROP_STEP),
                      !.drop_distance = e.drop_distance - DROP_STEP]
       ELSE [e EXCEPT !.x = e.x + across]

\* Enemy.update: the drop has priority over the horizontal advance
Enemy_update(e) ==
    IF e.drop_distance > 0
    THEN [e EXCEPT !.y = e.y + Min(e.drop_distance, DROP_STEP),
                   !.drop_distance = e.drop_distance - DROP_STEP]
    ELSE [e EXCEPT !.x = e.x + (IF e.is_elite
                                THEN Trunc(ENEMY_SPEED_X * e.direction * 3, 2)
                                ELSE ENEMY_SPEED_X * e.direction)]

\* a faulty reverse_direction that turns without queueing a drop: C38 tells
\* it from the program's
Enemy_reverse_direction_level(e) ==
    [e EXCEPT !.direction = -e.direction]

Enemy_reverse_direction(e) ==
    [e EXCEPT !.direction = -e.direction, !.drop_distance = ENEMY_SPEED_Y]

\* a faulty test that lets the special attack go when the cooldown has just
\* been reached: C34 tells it from the program's
Enemy_special_at_cooldown(e, t) ==
    e.is_elite /\ t - e.last_special_attack >= SPECIAL_ATTACK_COOLDOWN

\* Enemy.shoot at clock t: is this the elite's special attack
Enemy_special(e, t) ==
    e.is_elite /\ t - e.last_special_attack > SPECIAL_ATTACK_COOLDOWN

\* Enemy.shoot: the bullets created, in order
Enemy_shoot_bullets(e, t) ==
    LET cx == CenterX(EnemyRect(e))
        bottom == Bottom(EnemyRect(e))
    IN IF Enemy_special(e, t)
       THEN << NewBullet("EliteBullet", cx - TRIPLE_OFFSET_X, bottom,
                         ENEMY_BULLET_SPEED, "enemy", 0, -1),
               NewBullet("EliteBullet", cx, bottom,
                         ENEMY_BULLET_SPEED, "enemy", 0, 0),
               NewBullet("EliteBullet", cx + TRIPLE_OFFSET_X, bottom,
                         ENEMY_BULLET_SPEED, "enemy", 0, 1) >>
       ELSE IF e.is_elite
       THEN << NewBullet("EliteBullet", cx, bottom,
                         Trunc(ENEMY_BULLET_SPEED * 3, 2), "enemy", 0, 0) >>
       ELSE << NewBullet("Bullet", cx, bottom, ENEMY_BULLET_SPEED, "enemy", 0, 0) >>

\* Enemy.shoot: the enemy afterwards
Enemy_shoot(e, t) ==
    IF Enemy_special(e, t) THEN [e EXCEPT !.last_special_attack = t] ELSE e

----------------------------------------------------------------------------
(* entities.Bullet, EliteBullet, TripleShotBullet, Bonus, Explosion *)

\* Bullet.update and its overrides: the bullet after it moved
Bullet_move(b) ==
    [b EXCEPT !.y = b.y + b.speed,
              !.x = CASE b.cls = "EliteBullet" -> b.x + b.x_direction * ELITE_SPREAD_STEP
                      [] b.cls = "TripleShotBullet" ->
                             b.x + Trunc(b.x_velocity * (IF b.speed < 0 THEN -b.speed ELSE b.speed), 10)
                      [] OTHER -> b.x]

\* a faulty off-screen test that every class makes as the plain Bullet does,
\* against the top and the bottom only: C31 tells it from the program's
Bullet_offscreen_vertical(b) ==
    LET r == BulletRect(b)
    IN Bottom(r) < 0 \/ r.y > SCREEN_HEIGHT

\* Bullet.update and its overrides: the off-screen test made after the move
Bullet_offscreen(b) ==
    LET r == BulletRect(b)
    IN \/ Bottom(r) < 0
       \/ r.y > SCREEN_HEIGHT
       \/ /\ b.cls # "Bullet"
          /\ (r.x > SCREEN_WIDTH \/ Right(r) < 0)

\* Bonus.__init__(x, y) with the shape_type random.randint drew
NewBonus(cx, cy, shape_type) ==
    [x |-> cx - (BONUS_SIZE \div 2), y |-> cy - (BONUS_SIZE \div 2),
     shape_type |-> shape_type]

BonusRect(b) == [x |-> b.x, y |-> b.y, w |-> BONUS_SIZE, h |-> BONUS_SIZE]

Bonus_move(b) == [b EXCEPT !.y = b.y + BONUS_FALL_SPEED]

Bonus_offscreen(b) == b.y > SCREEN_HEIGHT

\* Explosion.__init__(x, y): centre, frame index and frame-advance counter
NewExplosion(cx, cy) ==
    [cx |-> cx, cy |-> cy, current_frame |-> 0, animation_counter |-> 0]

Explosion_update(e) ==
    IF e.animation_counter + 1 >= EXPLOSION_ANIMATION_SPEED
    THEN [e EXCEPT !.animation_counter = 0, !.current_frame = e.current_frame + 1]
    ELSE [e EXCEPT !.animation_counter = e.animation_counter + 1]

Explosion_done(e) == e.current_frame >= EXPLOSION_FRAMES

----------------------------------------------------------------------------
(* entities.EnemyGroup *)

\* EnemyGroup.__init__
NewEnemyGroup ==
    [enemies |-> {}, frozen |-> FALSE, freeze_end_time |-> 0,
     cache |-> <<>>, cache_dirty |-> TRUE]

\* create_formation: elite_count for a wave.  The doubles 0.1 + (wave - 2) *
\* 0.02 are the decimal value or a few ulps above it up to wave 12 and the
\* minimum is 0.3 from there on, so the integer part of the product with 50
\* is that of the decimal product
EliteCount(w) ==
    IF w >= 2
    THEN (ENEMY_ROWS * ENEMY_COLS * Min(10 + (w - 2) * 2, 30)) \div 100
    ELSE 0

\* the identity of the enemy created for (row, col): creation order
CellId(row, col) == row * ENEMY_COLS + col + 1

\* the elites of a second wave: EliteCount(2) cells, one in the last column
WaveTwoElites ==
    {CellId(0, 0), CellId(1, 3), CellId(2, ENEMY_COLS - 1), CellId(3, 7), CellId(4, 4)}

\* an order random.sample draws the cells in: the cells of first ascending,
\* then the others ascending
SampleOrder(first) ==
    SortedSeq(first) \o SortedSeq((1..(ENEMY_ROWS * ENEMY_COLS)) \ first)

\* a faulty create_formation that draws the elite cells with replacement
\* (every second draw repeats the one before): C25 tells it from the
\* program's
EnemyGroup_create_formation_with_replacement(g, w, sample) ==
    LET elite_positions == {sample[(i + 1) \div 2] : i \in 1..EliteCount(w)}
    IN [g EXCEPT
          !.enemies = { NewEnemy(CellId(row, col),
                                 col * ENEMY_SPACING_X + FORMATION_LEFT,
                                 row * ENEMY_SPACING_Y + ENEMY_START_Y,
                                 row, CellId(row, col) \in elite_positions) :
                        row \in 0..(ENEMY_ROWS - 1), col \in 0..(ENEMY_COLS - 1) },
          !.cache_dirty = TRUE]

\* EnemyGroup.create_formation(w); sample is the order random.sample
\* draws the cells in, of which it returns the first elite_count
EnemyGroup_create_formation(g, w, sample) ==
    LET elite_positions == {sample[i] : i \in 1..EliteCount(w)}
    IN [g EXCEPT
          !.enemies = { NewEnemy(CellId(row, col),
                                 col * ENEMY_SPACING_X + FORMATION_LEFT,
                                 row * ENEMY_SPACING_Y + ENEMY_START_Y,
                                 row, CellId(row, col) \in elite_positions) :
                        row \in 0..(ENEMY_ROWS - 1), col \in 0..(ENEMY_COLS - 1) },
          !.cache_dirty = TRUE]

\* a faulty edge test that does not look at the direction: C37 tells it from
\* the program's
HitEdge_either_way(enemies) ==
    \E e \in enemies :
        \/ Right(EnemyRect(e)) >= SCREEN_WIDTH - EDGE_MARGIN
        \/ e.x <= EDGE_MARGIN

\* the edge test of EnemyGroup.update
HitEdge(enemies) ==
    \E e \in enemies :
        \/ Right(EnemyRect(e)) >= SCREEN_WIDTH - EDGE_MARGIN /\ e.direction > 0
        \/ e.x <= EDGE_MARGIN /\ e.direction < 0

\* a faulty update that reverses only the enemies at the edge: C2 tells it
\* from the program's
EnemyGroup_update_one_by_one(g, t) ==
    LET frozen1 == IF g.frozen /\ t > g.freeze_end_time THEN FALSE ELSE g.frozen
    IN IF frozen1
       THEN [g EXCEPT !.frozen = frozen1]
       ELSE [g EXCEPT !.frozen = frozen1,
                      !.enemies = {Enemy_update(IF HitEdge({e})
                                                THEN Enemy_reverse_direction(e) ELSE e) :
                                   e \in g.enemies}]

\* a faulty update whose freeze ends when its end time is reached: C10 tells
\* it from the program's
EnemyGroup_update_early_thaw(g, t) ==
    LET frozen1 == IF g.frozen /\ t >= g.freeze_end_time - 1 THEN FALSE ELSE g.frozen
    IN IF frozen1
       THEN [g EXCEPT !.frozen = frozen1]
       ELSE [g EXCEPT !.frozen = frozen1,
                      !.enemies = {Enemy_update(IF HitEdge(g.enemies)
                                                THEN Enemy_reverse_direction(e) ELSE e) :
                                   e \in g.enemies}]

\* EnemyGroup.update at clock t
EnemyGroup_update(g, t) ==
    LET frozen1 == IF g.frozen /\ t > g.freeze_end_time THEN FALSE ELSE g.frozen
    IN IF frozen1
       THEN [g EXCEPT !.frozen = frozen1]
       ELSE LET turned == IF HitEdge(g.enemies)
                          THEN {Enemy_reverse_direction(e) : e \in g.enemies}
                          ELSE g.enemies
                moved == {Enemy_update(e) : e \in turned}
            IN [g EXCEPT !.frozen = frozen1,
                         !.enemies = moved,
                         !.cache_dirty =
                             IF Cardinality(moved) # Len(g.cache)
                             THEN TRUE ELSE g.cache_dirty]

\* the column bucket get_bottom_enemies files an enemy under
Bucket(e) == CenterX(EnemyRect(e)) \div ENEMY_SPACING_X

\* max(enemies, key=bottom) of one bucket: the first of the greatest bottoms in
\* the group's iteration order (creation order)
BottomOf(enemies, col) ==
    LET inCol == {e \in enemies : Bucket(e) = col}
        low == {e \in inCol : \A o \in inCol : Bottom(EnemyRect(e)) >= Bottom(EnemyRect(o))}
    IN CHOOSE e \in low : \A o \in low : e.id <= o.id

\* the recalculation of get_bottom_enemies: one enemy per bucket, the buckets
\* in the order their first enemy is met
RecomputeBottom(enemies) ==
    LET cols == {Bucket(e) : e \in enemies}
        first(c) == CHOOSE i \in {e.id : e \in {o \in enemies : Bucket(o) = c}} :
                        \A o \in enemies : Bucket(o) = c => i <= o.id
        order == SortedSeq({first(c) : c \in cols})
        colOf(i) == CHOOSE c \in cols : first(c) = i
    IN [k \in 1..Len(order) |-> BottomOf(enemies, colOf(order[k])).id]

\* e.alive() for the enemy object with identity id
EnemyAlive(g, id) == \E e \in g.enemies : e.id = id

\* EnemyGroup.get_bottom_enemies: the group afterwards (the cache is updated)
EnemyGroup_get_bottom_enemies(g) ==
    LET valid == SelectSeq(g.cache, LAMBDA id : EnemyAlive(g, id))
    IN IF ~g.cache_dirty /\ g.cache # <<>> /\ valid # <<>>
       THEN [g EXCEPT !.cache = valid]
       ELSE [g EXCEPT !.cache = RecomputeBottom(g.enemies), !.cache_dirty = FALSE]

EnemyGroup_is_empty(g) == g.enemies = {}

\* a faulty check_player_collision that waits for an enemy to reach the
\* player itself: C16 tells it from the program's
EnemyGroup_check_player_collision_contact(g, player_rect) ==
    \E e \in g.enemies : Bottom(EnemyRect(e)) > player_rect.y

EnemyGroup_check_player_collision(g, player_rect) ==
    \E e \in g.enemies : Bottom(EnemyRect(e)) > player_rect.y - PLAYER_ZONE_BUFFER

\* EnemyGroup.freeze(duration) at clock t
EnemyGroup_freeze(g, duration, t) ==
    [g EXCEPT !.frozen = TRUE, !.freeze_end_time = t + duration]

----------------------------------------------------------------------------
(* performance.BulletPool *)

\* bullet_pool as created at import; created counts the bullet objects made
NewPool == [available |-> <<>>, active |-> {}, created |-> 0]

\* isinstance(bullet, bullet_class) for the three bullet classes
IsInstance(cls, bullet_class) == cls = bullet_class \/ bullet_class = "Bullet"

\* a faulty get_bullet that hands a recycled bullet out as it was released:
\* C36 tells it from the program's
BulletPool_get_bullet_as_released(pl, bullet_class, b) ==
    IF pl.available # <<>> /\ IsInstance(Head(pl.available).cls, bullet_class)
    THEN [pool |-> [pl EXCEPT !.available = Tail(pl.available),
                              !.active = pl.active \cup {Head(pl.available).id}],
          bullet |-> Head(pl.available),
          recycled |-> TRUE]
    ELSE LET avail == IF pl.available # <<>>
                      THEN Tail(pl.available) \o <<Head(pl.available)>>
                      ELSE pl.available
             id == pl.created + 1
         IN [pool |-> [available |-> avail, active |-> pl.active \cup {id},
                       created |-> id],
             bullet |-> [b EXCEPT !.id = id, !.cls = bullet_class],
             recycled |-> FALSE]

\* BulletPool.get_bullet(bullet_class, *args), args given by the bullet b
\* made of them: [pool, bullet, recycled]
BulletPool_get_bullet(pl, bullet_class, b) ==
    IF pl.available # <<>> /\ IsInstance(Head(pl.available).cls, bullet_class)
    THEN LET old == Head(pl.available)
         IN [pool |-> [pl EXCEPT !.available = Tail(pl.available),
                                 !.active = pl.active \cup {old.id}],
             bullet |-> [old EXCEPT !.x = b.x, !.y = b.y, !.speed = b.speed,
                                    !.owner = b.owner,
                                    !.x_velocity = 0, !.x_direction = 0],
             recycled |-> TRUE]
    ELSE LET avail == IF pl.available # <<>>
                      THEN Tail(pl.available) \o <<Head(pl.available)>>
                      ELSE pl.available
             id == pl.created + 1
         IN [pool |-> [available |-> avail, active |-> pl.active \cup {id},
                       created |-> id],
             bullet |-> [b EXCEPT !.id = id, !.cls = bullet_class],
             recycled |-> FALSE]

\* a faulty release_bullet that queues the bullet whatever the queue holds:
\* C36 tells it from the program's too
BulletPool_release_bullet_unbounded(pl, b) ==
    IF b.id \in pl.active
    THEN [pl EXCEPT !.active = pl.active \ {b.id},
                    !.available = Append(pl.available, b)]
    ELSE pl

\* BulletPool.release_bullet(bullet)
BulletPool_release_bullet(pl, b) ==
    IF b.id \in pl.active
    THEN [pl EXCEPT !.active = pl.active \ {b.id},
                    !.available = IF Len(pl.available) < POOL_SIZE
                                  THEN Append(pl.available, b)
                                  ELSE pl.available]
    ELSE pl

----------------------------------------------------------------------------
(* game.Game *)

\* what check_collisions can read or change, as seen between its stages
ViewOf(g) ==
    [taken |-> TRUE, player |-> g.player, enemies |-> g.eg.enemies,
     frozen |-> g.eg.frozen, freeze_end_time |-> g.eg.freeze_end_time,
     player_bullets |-> g.player_bullets, enemy_bullets |-> g.enemy_bullets,
     bonuses |-> g.bonuses, explosions |-> Len(g.explosions)]

NoView ==
    [taken |-> FALSE, player |-> NoPlayer, enemies |-> {},
     frozen |-> FALSE, freeze_end_time |-> 0,
     player_bullets |-> <<>>, enemy_bullets |-> <<>>,
     bonuses |-> <<>>, explosions |-> 0]

\* how far the history counters count
Many == 3

\* the record of what a handler did, empty at its start: the key of a KEYDOWN
\* event, the enemies whose shot roll succeeds in an update, the sounds played,
\* counts of the events, the branch _check_game_over_conditions took, and the
\* views at the handler's start (pre), before check_collisions (mid) and after
\* each of its stages; and two counters that outlive the handler, the hits
\* taken since the shield was last activated and the shots fired since the
\* triple shot was last armed (Many: no such pickup, or Many and more)
NoEvents(op) ==
    [op |-> op, key |-> "", shooters |-> {}, sounds |-> <<>>, kills |-> 0,
     killers |-> {}, explosions |-> 0,
     spawned |-> 0, hits |-> {}, hit_calls |-> 0, collected |-> <<>>,
     shots |-> 0, recycled |-> {}, enemy_shots |-> 0, branch |-> "none",
     pre |-> NoView, mid |-> NoView, s1 |-> NoView, s2 |-> NoView, s3 |-> NoView,
     since_shield |-> Many, since_armed |-> Many]

\* the record at the start of handler op in game g
Events(g, op) ==
    [NoEvents(op) EXCEPT !.pre = ViewOf(g),
                         !.since_shield = g.ev.since_shield,
                         !.since_armed = g.ev.since_armed]

Play(g, sound) == [g EXCEPT !.ev.sounds = Append(g.ev.sounds, sound)]

\* a file of the working directory: whether it exists, whether open() for
\* reading and for writing succeed, and its text as the tokens of the JSON
\* grammar
NoFile == [exists |-> FALSE, readable |-> TRUE, writable |-> TRUE, text |-> <<>>]

\* the tokens: punctuation and the literals true, false, null and NaN by their
\* spelling; strings by their characters; numbers by sign, integer digits and
\* fraction digits
Tok(t) == [t |-> t, s |-> "", neg |-> FALSE, digits |-> <<>>, frac |-> <<>>]
Str(s) == [t |-> "string", s |-> s, neg |-> FALSE, digits |-> <<>>, frac |-> <<>>]
Num(neg, digits, frac) ==
    [t |-> "number", s |-> "", neg |-> neg, digits |-> digits, frac |-> frac]

\* the decimal digits json.dump writes for n >= 0
RECURSIVE Digits(_)
Digits(n) == IF n < 10 THEN <<n>> ELSE Append(Digits(n \div 10), n % 10)

\* the number a run of decimal digits reads as
RECURSIVE DigitsValue(_)
DigitsValue(ds) ==
    IF ds = <<>> THEN 0
    ELSE 10 * DigitsValue(SubSeq(ds, 1, Len(ds) - 1)) + ds[Len(ds)]

\* json.dump({"high_score": n}, f)
JsonDump(n) ==
    <<Tok("{"), Str("high_score"), Tok(":"),
      Num(n < 0, Digits(IF n < 0 THEN -n ELSE n), <<>>), Tok("}")>>

\* json.load gives a dict: the text is an object of scalar members
JsonIsObject(text) ==
    LET n == Len(text)
        Scalar(k) == k.t \in {"string", "number", "true", "false", "null", "NaN"}
    IN /\ n >= 2
       /\ text[1].t = "{"
       /\ text[n].t = "}"
       /\ n = 2 \/ n % 4 = 1
       /\ \A i \in 2..(n - 1) :
             CASE i % 4 = 2 -> text[i].t = "string"
               [] i % 4 = 3 -> text[i].t = ":"
               [] i % 4 = 0 -> Scalar(text[i])
               [] OTHER -> text[i].t = ","

\* data.get(key, 0) on the dict of an object: the last member named key
JsonGet(text, key) ==
    LET at == {i \in 2..(Len(text) - 1) : i % 4 = 2 /\ text[i].s = key}
    IN IF at = {} THEN Num(FALSE, <<0>>, <<>>)
       ELSE text[(CHOOSE i \in at : \A j \in at : j <= i) + 2]

\* Game.load_high_score: open() or json.load or data.get or int() raising
\* ends in the bare except and 0; int() of a float truncates and a JSON
\* true or false is an int (1 or 0) to isinstance
Game_load_high_score(file) ==
    IF ~file.exists \/ ~file.readable \/ ~JsonIsObject(file.text) THEN 0
    ELSE LET score == JsonGet(file.text, "high_score")
         IN CASE score.t = "number" ->
                     (IF score.neg THEN -1 ELSE 1) * DigitsValue(score.digits)
              [] score.t = "true" -> 1
              [] OTHER -> 0

\* Game.__init__ in a working directory whose highscore.json is file
NewGameWith(file) ==
    [state |-> MENU, running |-> TRUE, selected_index |-> 0, wave |-> 1,
     high_score |-> Game_load_high_score(file), highscore_json |-> file,
     particles_enabled |-> TRUE, sound_enabled |-> TRUE, music_enabled |-> TRUE,
     player |-> NoPlayer, eg |-> NewEnemyGroup,
     player_bullets |-> <<>>, enemy_bullets |-> <<>>, bonuses |-> <<>>,
     explosions |-> <<>>, pool |-> NewPool, ev |-> NoEvents("init")]

\* Game.__init__ in a working directory without a highscore.json
NewGame == NewGameWith(NoFile)

\* a faulty save_high_score that writes whatever the stored value is: C21
\* tells it from the program's
Game_save_high_score_always(g) ==
    IF g.player.exists
    THEN [g EXCEPT !.high_score = g.player.score,
                   !.highscore_json =
                       IF g.highscore_json.writable
                       THEN [g.highscore_json EXCEPT !.exists = TRUE,
                                                     !.text = JsonDump(g.player.score)]
                       ELSE g.highscore_json]
    ELSE g

\* Game.save_high_score: open() raising leaves the file as it was
Game_save_high_score(g) ==
    IF g.player.exists /\ g.player.score > g.high_score
    THEN [g EXCEPT !.high_score = g.player.score,
                   !.highscore_json =
                       IF g.highscore_json.writable
                       THEN [g.highscore_json EXCEPT !.exists = TRUE,
                                                     !.text = JsonDump(g.player.score)]
                       ELSE g.highscore_json]
    ELSE g

\* a faulty reset_game that keeps the player of the game before: C22 tells it
\* from the program's
Game_reset_game_same_player(g) ==
    [g EXCEPT !.player_bullets = <<>>, !.enemy_bullets = <<>>, !.bonuses = <<>>,
              !.explosions = <<>>,
              !.player = IF g.player.exists THEN g.player
                         ELSE NewPlayer(SCREEN_WIDTH \div 2,
                                        SCREEN_HEIGHT - PLAYER_START_OFFSET_Y),
              !.wave = 1,
              !.eg = EnemyGroup_create_formation(g.eg, 1, <<>>),
              !.ev.since_shield = Many, !.ev.since_armed = Many]

\* Game.reset_game
Game_reset_game(g) ==
    [g EXCEPT !.player_bullets = <<>>, !.enemy_bullets = <<>>, !.bonuses = <<>>,
              !.explosions = <<>>,
              !.player = NewPlayer(SCREEN_WIDTH \div 2, SCREEN_HEIGHT - PLAYER_START_OFFSET_Y),
              !.wave = 1,
              !.eg = EnemyGroup_create_formation(g.eg, 1, <<>>),
              !.ev.since_shield = Many, !.ev.since_armed = Many]

\* a faulty next_wave that rebuilds the formation of the wave just cleared:
\* C24 tells it from the program's
Game_next_wave_again(g, sample) ==
    [g EXCEPT !.eg = EnemyGroup_create_formation(g.eg, g.wave, sample),
              !.state = PLAYING]

\* a faulty next_wave that starts the wave with the groups emptied, as
\* reset_game does: C39 tells it from the program's
Game_next_wave_cleared(g, sample) ==
    [g EXCEPT !.wave = g.wave + 1,
              !.eg = EnemyGroup_create_formation(g.eg, g.wave + 1, sample),
              !.state = PLAYING,
              !.player_bullets = <<>>, !.enemy_bullets = <<>>, !.bonuses = <<>>]

\* Game.next_wave; sample is the order random.sample draws the cells in
Game_next_wave(g, sample) ==
    [g EXCEPT !.wave = g.wave + 1,
              !.eg = EnemyGroup_create_formation(g.eg, g.wave + 1, sample),
              !.state = PLAYING]

\* the loops of player_shoot and enemy_shoot over the bullets of one shot: each
\* is exchanged for a pooled bullet of class cls (its own class when cls is "")
\* and added to the group; acc = [pool, group, recycled]
RECURSIVE AddPooled(_, _, _)
AddPooled(acc, bs, cls) ==
    IF bs = <<>> THEN acc
    ELSE LET b == Head(bs)
             got == BulletPool_get_bullet(acc.pool, IF cls = "" THEN b.cls ELSE cls, b)
         IN AddPooled([pool |-> got.pool,
                       group |-> Append(acc.group, got.bullet),
                       recycled |-> IF got.recycled
                                    THEN acc.recycled \cup {got.bullet.id}
                                    ELSE acc.recycled],
                      Tail(bs), cls)

\* Game.player_shoot at clock t
Game_player_shoot(g, t) ==
    IF g.player.exists /\ Player_can_shoot(g.player, t)
    THEN LET bullets == Player_shoot_bullets(g.player)
             added == AddPooled([pool |-> g.pool, group |-> g.player_bullets,
                                 recycled |-> g.ev.recycled], bullets, "")
         IN Play([g EXCEPT !.player = Player_shoot(g.player, t),
                           !.pool = added.pool,
                           !.player_bullets = added.group,
                           !.ev.recycled = added.recycled,
                           !.ev.shots = Len(bullets),
                           !.ev.since_armed = Min(g.ev.since_armed + 1, Many)],
                 "player_shoot")
    ELSE g

\* the enemy with identity id
EnemyById(enemies, id) == CHOOSE e \in enemies : e.id = id

\* the loop of Game.enemy_shoot over the bottom enemies; shooters are the
\* enemies whose can_shoot() roll succeeds this frame
RECURSIVE EnemyShootLoop(_, _, _, _)
EnemyShootLoop(g, bottom, shooters, t) ==
    IF bottom = <<>> THEN g
    ELSE IF Head(bottom) \notin shooters
    THEN EnemyShootLoop(g, Tail(bottom), shooters, t)
    ELSE LET e == EnemyById(g.eg.enemies, Head(bottom))
             bullets == Enemy_shoot_bullets(e, t)
             \* hasattr(bullet, "x_direction") holds for every bullet class
             added == AddPooled([pool |-> g.pool, group |-> g.enemy_bullets,
                                 recycled |-> g.ev.recycled], bullets, "EliteBullet")
             g1 == [g EXCEPT !.eg.enemies = (g.eg.enemies \ {e}) \cup {Enemy_shoot(e, t)},
                             !.pool = added.pool,
                             !.enemy_bullets = added.group,
                             !.ev.recycled = added.recycled,
                             !.ev.enemy_shots = g.ev.enemy_shots + Len(bullets)]
         IN EnemyShootLoop(Play(g1, "enemy_shoot"), Tail(bottom), shooters, t)

\* a faulty enemy_shoot that does not look at the freeze: C11 tells it from
\* the program's
Game_enemy_shoot_frozen(g, shooters, t) ==
    LET eg1 == EnemyGroup_get_bottom_enemies(g.eg)
    IN EnemyShootLoop([g EXCEPT !.eg = eg1], eg1.cache, shooters, t)

\* Game.enemy_shoot at clock t
Game_enemy_shoot(g, shooters, t) ==
    IF g.eg.frozen THEN g
    ELSE LET eg1 == EnemyGroup_get_bottom_enemies(g.eg)
         IN EnemyShootLoop([g EXCEPT !.eg = eg1], eg1.cache, shooters, t)

\* a faulty apply_bonus_effect whose extra life scores nothing and whose
\* shield also starts rapid fire: C7 tells it from the program's
Game_apply_bonus_effect_mixed(g, bonus_type, t) ==
    LET p == g.player
        scored(q) == [q EXCEPT !.score = q.score + BONUS_SCORE]
    IN IF ~p.exists THEN g
       ELSE CASE bonus_type = EXTRA_LIFE ->
                   [g EXCEPT !.player = Player_add_life(p)]
              [] bonus_type = FREEZE_ENEMIES ->
                   [g EXCEPT !.eg = EnemyGroup_freeze(g.eg, FREEZE_DURATION, t),
                             !.player = scored(p)]
              [] bonus_type = TRIPLE_SHOT ->
                   [g EXCEPT !.player = scored(Player_activate_triple_shot(p))]
              [] bonus_type = SHIELD ->
                   [g EXCEPT !.player = scored(Player_activate_rapid_fire(
                                                   Player_activate_shield(p, t), t))]
              [] bonus_type = RAPID_FIRE ->
                   [g EXCEPT !.player = scored(Player_activate_rapid_fire(p, t))]
              [] OTHER -> g

\* Game.apply_bonus_effect(bonus_type) at clock t
Game_apply_bonus_effect(g, bonus_type, t) ==
    LET p == g.player
        scored(q) == [q EXCEPT !.score = q.score + BONUS_SCORE]
        g1 == IF ~p.exists THEN g
              ELSE CASE bonus_type = EXTRA_LIFE ->
                          [g EXCEPT !.player = scored(Player_add_life(p))]
                     [] bonus_type = FREEZE_ENEMIES ->
                          [g EXCEPT !.eg = EnemyGroup_freeze(g.eg, FREEZE_DURATION, t),
                                    !.player = scored(p)]
                     [] bonus_type = TRIPLE_SHOT ->
                          [g EXCEPT !.player = scored(Player_activate_triple_shot(p)),
                                    !.ev.since_armed = 0]
                     [] bonus_type = SHIELD ->
                          [g EXCEPT !.player = scored(Player_activate_shield(p, t)),
                                    !.ev.since_shield = 0]
                     [] bonus_type = RAPID_FIRE ->
                          [g EXCEPT !.player = scored(Player_activate_rapid_fire(p, t))]
                     [] OTHER -> g
    IN Play(g1, "power_up")


\* the bonus roll of the k-th kill of a frame: a shape type, or -1 for no
\* bonus (random.random() >= BONUS_SPAWN_CHANCE)
RollOf(rolls, k) == IF k <= Len(rolls) THEN rolls[k] ELSE -1

\* check_collisions, the body run for each enemy of hit_enemies (in the
\* group's order): score, explosion, bonus roll
RECURSIVE KillLoop(_, _, _)
KillLoop(g, hit, rolls) ==
    IF hit = {} THEN g
    ELSE LET e == CHOOSE a \in hit : \A o \in hit : a.id <= o.id
             r == EnemyRect(e)
             roll == RollOf(rolls, g.ev.kills + 1)
             g1 == [g EXCEPT
                      !.player.score = IF g.player.exists
                                       THEN g.player.score + ENEMY_SCORE
                                       ELSE g.player.score,
                      !.explosions = IF g.particles_enabled
                                     THEN Append(g.explosions,
                                                 NewExplosion(CenterX(r), CenterY(r)))
                                     ELSE g.explosions,
                      !.ev.explosions = IF g.particles_enabled
                                        THEN g.ev.explosions + 1
                                        ELSE g.ev.explosions,
                      !.ev.kills = g.ev.kills + 1]
             g2 == Play(g1, "explosion")
             g3 == IF roll >= 0
                   THEN [g2 EXCEPT
                           !.bonuses = Append(g2.bonuses,
                                              NewBonus(CenterX(r), CenterY(r), roll)),
                           !.ev.spawned = g2.ev.spawned + 1]
                   ELSE g2
         IN KillLoop(g3, hit \ {e}, rolls)

\* a faulty spritecollide that compares the x extents only, so that a bullet
\* takes the whole column above it: C4 tells it from the program's
HitEnemies_column(b, enemies) ==
    {e \in enemies : /\ b.x < Right(EnemyRect(e))
                     /\ Right(BulletRect(b)) > e.x}

\* pygame.sprite.spritecollide(bullet, enemies, ...): the enemies whose rect
\* overlaps the bullet's
HitEnemies(b, enemies) ==
    {e \in enemies : colliderect(BulletRect(b), EnemyRect(e))}

\* check_collisions, stage 1: the loop over the player bullets (bs: those
\* still to visit)
RECURSIVE Stage1(_, _, _)
Stage1(g, bs, rolls) ==
    IF bs = <<>> THEN g
    ELSE LET b == Head(bs)
             hit == HitEnemies(b, g.eg.enemies)
         IN IF hit = {}
            THEN Stage1(g, Tail(bs), rolls)
            ELSE LET g1 == [g EXCEPT
                              !.eg.enemies = g.eg.enemies \ hit,
                              !.player_bullets =
                                  SelectSeq(g.player_bullets, LAMBDA o : o.id # b.id),
                              !.ev.killers = g.ev.killers \cup {b.id}]
                 IN Stage1(KillLoop(g1, hit, rolls), Tail(bs), rolls)

\* a faulty stage 2 that hits the player once for each overlapping bullet:
\* C6 tells it from the program's
Stage2_each_bullet(g, t) ==
    IF ~g.player.exists THEN g
    ELSE LET overlaps(b) == colliderect(PlayerRect(g.player), BulletRect(b))
             hit_player == SelectSeq(g.enemy_bullets, overlaps)
         IN [g EXCEPT !.enemy_bullets = SelectSeq(g.enemy_bullets, LAMBDA b : ~overlaps(b)),
                      !.player.lives = g.player.lives - Len(hit_player),
                      !.ev.hit_calls = Len(hit_player)]

\* check_collisions, stage 2: enemy bullets hitting the player, at clock t
Stage2(g, t) ==
    IF ~g.player.exists THEN g
    ELSE LET overlaps(b) == colliderect(PlayerRect(g.player), BulletRect(b))
             hit_player == SelectSeq(g.enemy_bullets, overlaps)
         IN IF hit_player = <<>> THEN g
            ELSE LET g1 == [g EXCEPT
                              !.enemy_bullets =
                                  SelectSeq(g.enemy_bullets, LAMBDA b : ~overlaps(b)),
                              !.ev.hits = {hit_player[i].id : i \in 1..Len(hit_player)}]
                     g2 == Play(g1, IF g.player.shield_active
                                    THEN "shield_hit" ELSE "explosion")
                     r == PlayerRect(g.player)
                 IN [g2 EXCEPT
                       !.player = Player_hit(g.player, t),
                       !.ev.hit_calls = g2.ev.hit_calls + 1,
                       !.ev.since_shield = Min(g2.ev.since_shield + 1, Many),
                       !.explosions = IF g.particles_enabled
                                      THEN Append(g.explosions,
                                                  NewExplosion(CenterX(r), CenterY(r)))
                                      ELSE g.explosions,
                       !.ev.explosions = IF g.particles_enabled
                                         THEN g.ev.explosions + 1
                                         ELSE g.ev.explosions]

\* check_collisions, stage 3: the loop over the collected bonuses
RECURSIVE CollectLoop(_, _, _)
CollectLoop(g, collected, t) ==
    IF collected = <<>> THEN g
    ELSE LET b == Head(collected)
             g1 == Game_apply_bonus_effect(g, b.shape_type, t)
             g2 == Play([g1 EXCEPT !.ev.collected = Append(g1.ev.collected, b.shape_type)],
                        "bonus_collect")
         IN CollectLoop(g2, Tail(collected), t)

\* check_collisions, stage 3: the player collecting bonuses, at clock t
Stage3(g, t) ==
    IF ~g.player.exists THEN g
    ELSE LET overlaps(b) == colliderect(PlayerRect(g.player), BonusRect(b))
             collected == SelectSeq(g.bonuses, overlaps)
         IN CollectLoop([g EXCEPT !.bonuses = SelectSeq(g.bonuses, LAMBDA b : ~overlaps(b))],
                        collected, t)

\* a faulty check_collisions whose stage 1 tests the bullets of both groups
\* against the enemies: C5 tells it from the program's
Game_check_collisions_any_bullet(g, rolls, t) ==
    LET a == Stage1(g, g.player_bullets \o g.enemy_bullets, rolls)
        b == Stage2(a, t)
        c == Stage3(b, t)
    IN [c EXCEPT !.ev.mid = ViewOf(g), !.ev.s1 = ViewOf(a),
                 !.ev.s2 = ViewOf(b), !.ev.s3 = ViewOf(c)]

\* a faulty check_collisions that collects the bonuses before it resolves the
\* enemy bullets: C29 tells it from the program's
Game_check_collisions_bonus_first(g, rolls, t) ==
    LET a == Stage1(g, g.player_bullets, rolls)
        b == Stage3(a, t)
        c == Stage2(b, t)
    IN [c EXCEPT !.ev.mid = ViewOf(g), !.ev.s1 = ViewOf(a),
                 !.ev.s2 = ViewOf(b), !.ev.s3 = ViewOf(c)]

\* Game.check_collisions at clock t
Game_check_collisions(g, rolls, t) ==
    LET a == Stage1(g, g.player_bullets, rolls)
        b == Stage2(a, t)
        c == Stage3(b, t)
    IN [c EXCEPT !.ev.mid = ViewOf(g), !.ev.s1 = ViewOf(a),
                 !.ev.s2 = ViewOf(b), !.ev.s3 = ViewOf(c)]

\* a faulty _handle_game_over that forfeits the score: C15 tells it from the
\* program's
Game_handle_game_over_forfeit(g) ==
    Play(Game_save_high_score([g EXCEPT !.state = GAME_OVER, !.player.score = 0]),
         "game_over")

\* Game._handle_game_over
Game_handle_game_over(g) ==
    Play(Game_save_high_score([g EXCEPT !.state = GAME_OVER]), "game_over")

\* Game._handle_wave_clear
Game_handle_wave_clear(g) ==
    Play([g EXCEPT !.state = WAVE_CLEAR,
                   !.player.score = g.player.score + WAVE_CLEAR_BONUS],
         "wave_clear")

\* a faulty _check_game_over_conditions that looks at the empty formation
\* first: C1 tells it from the program's
Game_check_game_over_conditions_clear_first(g) ==
    IF ~g.player.exists THEN g
    ELSE IF EnemyGroup_is_empty(g.eg)
    THEN Game_handle_wave_clear([g EXCEPT !.ev.branch = "cleared"])
    ELSE IF ~Player_is_alive(g.player)
    THEN Game_handle_game_over([g EXCEPT !.ev.branch = "no_lives"])
    ELSE IF EnemyGroup_check_player_collision(g.eg, PlayerRect(g.player))
    THEN Game_handle_game_over([g EXCEPT !.player.lives = 0, !.ev.branch = "invaded"])
    ELSE g

\* Game._check_game_over_conditions
Game_check_game_over_conditions(g) ==
    IF ~g.player.exists THEN g
    ELSE IF ~Player_is_alive(g.player)
    THEN Game_handle_game_over([g EXCEPT !.ev.branch = "no_lives"])
    ELSE IF EnemyGroup_check_player_collision(g.eg, PlayerRect(g.player))
    THEN Game_handle_game_over([g EXCEPT !.player.lives = 0, !.ev.branch = "invaded"])
    ELSE IF EnemyGroup_is_empty(g.eg)
    THEN Game_handle_wave_clear([g EXCEPT !.ev.branch = "cleared"])
    ELSE g

\* Group.update() of a bullet group: every bullet moves; one that left the
\* screen is killed, and a plain Bullet is then released to the pool;
\* acc = [group, pool]
RECURSIVE BulletsUpdate(_, _)
BulletsUpdate(acc, bs) ==
    IF bs = <<>> THEN acc
    ELSE LET b == Bullet_move(Head(bs))
         IN IF Bullet_offscreen(b)
            THEN BulletsUpdate([group |-> acc.group,
                                pool |-> IF b.cls = "Bullet"
                                         THEN BulletPool_release_bullet(acc.pool, b)
                                         ELSE acc.pool],
                               Tail(bs))
            ELSE BulletsUpdate([group |-> Append(acc.group, b), pool |-> acc.pool],
                               Tail(bs))

\* Group.update() of the bonuses
BonusesUpdate(bs) ==
    LET moved == [i \in 1..Len(bs) |-> Bonus_move(bs[i])]
    IN SelectSeq(moved, LAMBDA b : ~Bonus_offscreen(b))

\* Group.update() of the explosions
ExplosionsUpdate(es) ==
    LET stepped == [i \in 1..Len(es) |-> Explosion_update(es[i])]
    IN SelectSeq(stepped, LAMBDA e : ~Explosion_done(e))

\* Game._update_game_playing up to the sprite updates (before enemy_shoot)
Game_update_sprites(g, keys, t) ==
    LET pb == BulletsUpdate([group |-> <<>>, pool |-> g.pool], g.player_bullets)
        eb == BulletsUpdate([group |-> <<>>, pool |-> pb.pool], g.enemy_bullets)
    IN [g EXCEPT !.player = IF g.player.exists
                            THEN Player_update(g.player, keys, t) ELSE g.player,
                 !.eg = EnemyGroup_update(g.eg, t),
                 !.player_bullets = pb.group,
                 !.enemy_bullets = eb.group,
                 !.pool = eb.pool,
                 !.bonuses = BonusesUpdate(g.bonuses),
                 !.explosions = ExplosionsUpdate(g.explosions)]

\* the state check_collisions runs on: after the sprite updates and enemy_shoot
BeforeCollisions(g, in, t) ==
    Game_enemy_shoot(Game_update_sprites(g, in.keys, t), in.shooters, t)

\* Game._update_game_playing at clock t; in = [keys, shooters, rolls]
Game_update_game_playing(g, in, t) ==
    Game_check_game_over_conditions(
        Game_check_collisions(BeforeCollisions(g, in, t), in.rolls, t))

\* a faulty update that keeps the game running after the wave is cleared: C17
\* tells it from the program's
Game_update_after_clear(g, in, t) ==
    LET g0 == [g EXCEPT !.ev = [Events(g, "update") EXCEPT !.shooters = in.shooters]]
    IN IF g.state \in {PLAYING, WAVE_CLEAR}
       THEN Game_update_game_playing(g0, in, t) ELSE g0

\* a faulty update that keeps a paused game running: C19 tells it from the
\* program's
Game_update_while_paused(g, in, t) ==
    LET g0 == [g EXCEPT !.ev = [Events(g, "update") EXCEPT !.shooters = in.shooters]]
    IN IF g.state \in {PLAYING, PAUSED}
       THEN Game_update_game_playing(g0, in, t) ELSE g0

\* Game.update at clock t
Game_update(g, in, t) ==
    LET g0 == [g EXCEPT !.ev = [Events(g, "update") EXCEPT !.shooters = in.shooters]]
    IN IF g.state = PLAYING THEN Game_update_game_playing(g0, in, t) ELSE g0

\* a faulty handle_value_change whose Music toggle does not look at Sound:
\* C35 tells it from the program's
SettingsMenu_handle_value_change_free(g, key) ==
    IF key \notin {"LEFT", "RIGHT"} THEN g
    ELSE CASE g.selected_index = SOUND_INDEX ->
                  [g EXCEPT !.sound_enabled = ~g.sound_enabled,
                            !.music_enabled = IF g.sound_enabled THEN FALSE ELSE @]
           [] g.selected_index = MUSIC_INDEX ->
                  [g EXCEPT !.music_enabled = ~g.music_enabled]
           [] g.selected_index = PARTICLES_INDEX ->
                  [g EXCEPT !.particles_enabled = ~g.particles_enabled]
           [] OTHER -> g

\* SettingsMenu.handle_value_change: of the settings Sound, Music and
\* Particles are fields of the model; Volume, Show FPS and Difficulty are not
SettingsMenu_handle_value_change(g, key) ==
    IF key \notin {"LEFT", "RIGHT"} THEN g
    ELSE CASE g.selected_index = SOUND_INDEX ->
                  [g EXCEPT !.sound_enabled = ~g.sound_enabled,
                            !.music_enabled = IF g.sound_enabled THEN FALSE ELSE @]
           [] g.selected_index = MUSIC_INDEX ->
                  IF g.sound_enabled
                  THEN [g EXCEPT !.music_enabled = ~g.music_enabled]
                  ELSE g
           [] g.selected_index = PARTICLES_INDEX ->
                  [g EXCEPT !.particles_enabled = ~g.particles_enabled]
           [] OTHER -> g

\* SettingsMenu.handle_navigation
SettingsMenu_handle_navigation(g, key) ==
    CASE key = "UP" ->
             [g EXCEPT !.selected_index = IF @ - 1 < 0 THEN 0 ELSE @ - 1]
      [] key = "DOWN" ->
             [g EXCEPT !.selected_index = Min(SETTINGS_COUNT - 1, @ + 1)]
      [] key \in {"LEFT", "RIGHT"} -> SettingsMenu_handle_value_change(g, key)
      [] OTHER -> g

\* a faulty handle_events that resumes a paused game on SPACE as well and
\* leaves the menu for the settings on any other key: C18 tells it from the
\* program's
Game_keydown_any_key(g, key, sample, t) ==
    LET g0 == [g EXCEPT !.ev = [Events(g, "keydown") EXCEPT !.key = key]]
    IN CASE g.state = MENU /\ key = "SPACE" -> Game_reset_game([g0 EXCEPT !.state = PLAYING])
         [] g.state = MENU /\ key = "ESCAPE" -> [g0 EXCEPT !.running = FALSE]
         [] g.state = MENU /\ key \notin {"SPACE", "ESCAPE"} -> [g0 EXCEPT !.state = SETTINGS]
         [] g.state = PLAYING /\ key = "SPACE" ->
                Game_player_shoot([g0 EXCEPT !.ev.op = "fire"], t)
         [] g.state = PLAYING /\ key = "ESCAPE" -> [g0 EXCEPT !.state = PAUSED]
         [] g.state = PAUSED /\ key \in {"ESCAPE", "SPACE"} -> [g0 EXCEPT !.state = PLAYING]
         [] g.state = PAUSED /\ key = "Q" -> [g0 EXCEPT !.state = MENU]
         [] g.state = GAME_OVER /\ key = "SPACE" -> [g0 EXCEPT !.state = MENU]
         [] g.state = WAVE_CLEAR /\ key = "SPACE" -> Game_next_wave(g0, sample)
         [] g.state = SETTINGS /\ key = "ESCAPE" -> [g0 EXCEPT !.state = MENU]
         [] g.state = SETTINGS /\ key # "ESCAPE" -> SettingsMenu_handle_navigation(g0, key)
         [] OTHER -> g0

\* Game.handle_events for one KEYDOWN event at clock t; sample is what
\* random.sample draws if the key starts the next wave
Game_keydown(g, key, sample, t) ==
    LET g0 == [g EXCEPT !.ev = [Events(g, "keydown") EXCEPT !.key = key]]
    IN CASE g.state = MENU /\ key = "SPACE" -> Game_reset_game([g0 EXCEPT !.state = PLAYING])
         [] g.state = MENU /\ key = "S" -> [g0 EXCEPT !.state = SETTINGS]
         [] g.state = MENU /\ key = "ESCAPE" -> [g0 EXCEPT !.running = FALSE]
         [] g.state = PLAYING /\ key = "SPACE" ->
                Game_player_shoot([g0 EXCEPT !.ev.op = "fire"], t)
         [] g.state = PLAYING /\ key = "ESCAPE" -> [g0 EXCEPT !.state = PAUSED]
         [] g.state = PAUSED /\ key = "ESCAPE" -> [g0 EXCEPT !.state = PLAYING]
         [] g.state = PAUSED /\ key = "Q" -> [g0 EXCEPT !.state = MENU]
         [] g.state = GAME_OVER /\ key = "SPACE" -> [g0 EXCEPT !.state = MENU]
         [] g.state = WAVE_CLEAR /\ key = "SPACE" -> Game_next_wave(g0, sample)
         [] g.state = SETTINGS /\ key = "ESCAPE" -> [g0 EXCEPT !.state = MENU]
         [] g.state = SETTINGS /\ key # "ESCAPE" -> SettingsMenu_handle_navigation(g0, key)
         [] OTHER -> g0

\* Game.handle_events for one QUIT event
Game_quit(g) ==
    [g EXCEPT !.ev = Events(g, "quit"), !.running = FALSE]

\* the call self.enemy_group.update() of _update_game_playing, at clock t
Game_group_update(g, t) ==
    [g EXCEPT !.ev = Events(g, "group_update"),
              !.eg = EnemyGroup_update(g.eg, t)]

\* the call self.player.update(keys) of _update_game_playing, at clock t
Game_player_update(g, keys, t) ==
    [g EXCEPT !.ev = [Events(g, "player_update") EXCEPT
                         !.key = IF keys.left
                                 THEN (IF keys.right THEN "LEFT+RIGHT" ELSE "LEFT")
                                 ELSE (IF keys.right THEN "RIGHT" ELSE "")],
              !.player = Player_update(g.player, keys, t)]

\* the call self.player.hit() of check_collisions, at clock t
Game_player_hit(g, t) ==
    [g EXCEPT !.ev = [Events(g, "hit") EXCEPT
                         !.hit_calls = 1,
                         !.since_shield = Min(g.ev.since_shield + 1, Many)],
              !.player = Player_hit(g.player, t)]

\* the call self.apply_bonus_effect(bonus.shape_type) of check_collisions, at
\* clock t
Game_pickup(g, bonus_type, t) ==
    Game_apply_bonus_effect([g EXCEPT !.ev = Events(g, "pickup")], bonus_type, t)

----------------------------------------------------------------------------
(* The state machine *)

\* the Game object the variables hold
Cur ==
    [state |-> state, running |-> running, selected_index |-> selected_index,
     wave |-> wave, high_score |-> high_score, highscore_json |-> highscore_json,
     particles_enabled |-> particles_enabled, sound_enabled |-> sound_enabled,
     music_enabled |-> music_enabled, player |-> player, eg |-> eg,
     player_bullets |-> player_bullets, enemy_bullets |-> enemy_bullets,
     bonuses |-> bonuses, explosions |-> explosions, pool |-> pool, ev |-> ev]

Becomes(g) ==
    /\ state' = g.state
    /\ running' = g.running
    /\ selected_index' = g.selected_index
    /\ wave' = g.wave
    /\ high_score' = g.high_score
    /\ highscore_json' = g.highscore_json
    /\ particles_enabled' = g.particles_enabled
    /\ sound_enabled' = g.sound_enabled
    /\ music_enabled' = g.music_enabled
    /\ player' = g.player
    /\ eg' = g.eg
    /\ player_bullets' = g.player_bullets
    /\ enemy_bullets' = g.enemy_bullets
    /\ bonuses' = g.bonuses
    /\ explosions' = g.explosions
    /\ pool' = g.pool
    /\ ev' = g.ev

Holds(g, t) ==
    /\ state = g.state
    /\ running = g.running
    /\ selected_index = g.selected_index
    /\ wave = g.wave
    /\ high_score = g.high_score
    /\ highscore_json = g.highscore_json
    /\ particles_enabled = g.particles_enabled
    /\ sound_enabled = g.sound_enabled
    /\ music_enabled = g.music_enabled
    /\ player = g.player
    /\ eg = g.eg
    /\ player_bullets = g.player_bullets
    /\ enemy_bullets = g.enemy_bullets
    /\ bonuses = g.bonuses
    /\ explosions = g.explosions
    /\ pool = g.pool
    /\ ev = g.ev
    /\ now = t
    /\ frame = 0

\* the frames a behaviour is followed for
MaxFrames == 2

NoKeys == [left |-> FALSE, right |-> FALSE]
Quiet == [keys |-> NoKeys, shooters |-> {}, rolls |-> <<>>]

\* the main loop has not ended: running is set, or was cleared by an event of
\* the pass that is not over (its other events and its update() still run)
InLoop == running \/ ev.op # "update"

\* one pass of the main loop's update(): the clock has advanced by dt
Tick(dt, in) ==
    /\ InLoop
    /\ frame < MaxFrames
    /\ now' = now + dt
    /\ frame' = frame + 1
    /\ Becomes(Game_update(Cur, in, now + dt))

\* one KEYDOWN event handled by handle_events
KeyDown(key, sample) ==
    /\ InLoop
    /\ Becomes(Game_keydown(Cur, key, sample, now))
    /\ UNCHANGED <<now, frame>>

----------------------------------------------------------------------------
(* Games in progress.  A wave-1 formation sweeps between the edges and is   *)
(* ENEMY_SPEED_Y lower after each reversal.  With its drop done it stands     *)
(* k to the right of where it was built (LeftSweep <= k <= FirstSweep),       *)
(* drops reversals lower, heading right after an even number of reversals    *)
(* and left after an odd one, whoever of it survives; flying bullets and     *)
(* falling bonuses stand where their own moves took them since the shot or   *)
(* the kill that made them (a freeze stops the formation's updates, not      *)
(* theirs).                                                                  *)

\* the updates of the first sweep before the right edge is met by the last
\* column
FirstSweep ==
    SCREEN_WIDTH - EDGE_MARGIN
        - (FORMATION_LEFT + (ENEMY_COLS - 1) * ENEMY_SPACING_X + ENEMY_W)

\* how far left of where it was built the formation goes before the left
\* edge is met
LeftSweep == FORMATION_LEFT - EDGE_MARGIN

\* the formation k updates right of where it was built, -LeftSweep <= k <=
\* FirstSweep: between the edges no drop is pending and every Enemy.update
\* displaces an enemy alike
GroupAfter(g, k) ==
    [g EXCEPT !.enemies = {[e EXCEPT !.x = @ + k * (Enemy_update(e).x - e.x)] :
                           e \in g.enemies}]

\* the formation after drops reversals (Enemy.reverse_direction and the drop
\* of ENEMY_SPEED_Y that follows each)
GroupLowered(g, drops) ==
    [g EXCEPT !.enemies = {[e EXCEPT !.y = @ + drops * ENEMY_SPEED_Y,
                                     !.direction = IF drops % 2 = 0 THEN @ ELSE -@] :
                           e \in g.enemies}]

\* the formation built with the elites, standing k right of where it was
\* built after drops reversals, of which only the survivors are left, as
\* enemy_shoot last saw it
EliteFormationAt(drops, k, survivors, elites) ==
    LET built == EnemyGroup_create_formation(NewEnemyGroup,
                                             IF elites = {} THEN 1 ELSE 2,
                                             SampleOrder(elites))
        g == GroupLowered(GroupAfter(built, k), drops)
    IN EnemyGroup_get_bottom_enemies(
           [g EXCEPT !.enemies = {e \in g.enemies : e.id \in survivors}])

\* the same of the wave-1 formation, which has no elites
FormationAt(drops, k, survivors) == EliteFormationAt(drops, k, survivors, {})

\* a formation after n more unfrozen updates, n small
RECURSIVE GroupSteps(_, _)
GroupSteps(g, n) ==
    IF n = 0 THEN g ELSE EnemyGroup_update(GroupSteps(g, n - 1), 0)

\* a bullet after age moves: every Bullet.update displaces it alike
BulletAfter(b, age) ==
    [b EXCEPT !.x = @ + age * (Bullet_move(b).x - b.x),
              !.y = @ + age * (Bullet_move(b).y - b.y)]

\* the player of a game in progress, standing dx to the right of the start
PlayerAt(dx, lives, score) ==
    [NewPlayer(SCREEN_WIDTH \div 2, SCREEN_HEIGHT - PLAYER_START_OFFSET_Y)
        EXCEPT !.x = @ + dx, !.lives = lives, !.score = score]

\* the pooled bullet id of a shot the player fired standing at dx, after age moves
PlayerBulletAt(id, dx, age) ==
    LET b == Player_shoot_bullets(PlayerAt(dx, PLAYER_LIVES, 0))[1]
    IN BulletAfter([b EXCEPT !.id = id], age)

\* the three pooled bullets, ids from id on, of a triple shot the player fired
\* standing at dx, after age moves
TripleBulletsAt(id, dx, age) ==
    LET bs == Player_shoot_bullets(Player_activate_triple_shot(PlayerAt(dx, PLAYER_LIVES, 0)))
    IN [i \in 1..Len(bs) |-> BulletAfter([bs[i] EXCEPT !.id = id + i - 1], age)]

\* the pooled bullet id of a shot enemy cell fired when the formation had made
\* k0 updates, after age moves
EnemyBulletAt(id, cell, k0, age) ==
    LET e == EnemyById(GroupAfter(EnemyGroup_create_formation(NewEnemyGroup, 1, <<>>), k0).enemies, cell)
        b == Enemy_shoot_bullets(e, 0)[1]
    IN BulletAfter([b EXCEPT !.id = id, !.cls = "EliteBullet"], age)

\* the bonus of shape_type dropped by enemy cell killed when the formation had
\* made k0 updates, after age moves
BonusAt(cell, k0, age, shape_type) ==
    LET e == EnemyById(GroupAfter(EnemyGroup_create_formation(NewEnemyGroup, 1, <<>>), k0).enemies, cell)
        r == EnemyRect(e)
        b == NewBonus(CenterX(r), CenterY(r), shape_type)
    IN [b EXCEPT !.y = @ + age * BONUS_FALL_SPEED]

\* the pool of a game whose live bullets are bs
PoolOf(bs) ==
    [available |-> <<>>, active |-> {bs[i].id : i \in 1..Len(bs)}, created |-> Len(bs)]

AllCells == 1..(ENEMY_ROWS * ENEMY_COLS)

\* a game in progress in state PLAYING
Playing(drops, k, survivors, p, pbs, ebs, bns, particles) ==
    [NewGame EXCEPT !.state = PLAYING, !.player = p,
                    !.eg = FormationAt(drops, k, survivors),
                    !.player_bullets = pbs, !.enemy_bullets = ebs,
                    !.bonuses = bns, !.pool = PoolOf(pbs \o ebs),
                    !.particles_enabled = particles,
                    !.ev = NoEvents("update")]

\* the clock of the games in progress: long after pygame.init()
StartTime == 20 * FREEZE_DURATION

\* a frame of the game, in ms: clock.tick(FPS)
FrameTime == 1000 \div FPS


\* the enemy built in row 4 (the bottom row), column col
BottomCell(col) == CellId(ENEMY_ROWS - 1, col)

\* the game g with a shield picked up ago ms ago and no hit since (ago < 0:
\* none)
Shielded(g, ago) ==
    IF ago < 0 THEN g
    ELSE [g EXCEPT !.player = Player_activate_shield(g.player, StartTime - ago),
                   !.ev.since_shield = 0]

\* Opening: the whole formation, one player bullet one move below the bottom
\* row, a second one beside it in the gap between two columns
Opening(particles) ==
    Playing(0, 42, AllCells, PlayerAt(0, PLAYER_LIVES, 0),
            <<PlayerBulletAt(1, 0, 42), PlayerBulletAt(2, 30, 41)>>, <<>>, <<>>,
            particles)

\* Endgame: one enemy left with a player bullet one move below it, and an
\* enemy bullet one move above the player
Endgame(lives, ago) ==
    Shielded(Playing(0, 42, {BottomCell(4)},
                     PlayerAt(0, lives, (ENEMY_ROWS * ENEMY_COLS - 1) * ENEMY_SCORE),
                     <<PlayerBulletAt(1, 0, 42)>>,
                     <<EnemyBulletAt(2, BottomCell(4), 40, 100)>>, <<>>, TRUE),
             ago)

\* Shower: two enemy bullets just right of the player, one beside it and one
\* above it; a third far away that a player bullet is about to meet at the
\* same coordinates; another player bullet about to leave the screen
Shower(lives, ago) ==
    Shielded(Playing(0, 42, {BottomCell(0), BottomCell(4), BottomCell(5)},
                     PlayerAt(0, lives, 0),
                     <<PlayerBulletAt(1, -300, 1), PlayerBulletAt(5, 30, 77)>>,
                     <<EnemyBulletAt(2, BottomCell(5), 10, 104),
                       EnemyBulletAt(3, BottomCell(5), 12, 100),
                       EnemyBulletAt(4, BottomCell(0), 37, 96)>>, <<>>, TRUE),
             ago)

\* Landing: twelve reversals down at the right edge, seven updates into the
\* thirteenth drop, the bottom row one update above the player zone; an enemy
\* bullet one move above the player
Landing(lives) ==
    LET g == Playing(12, FirstSweep, {BottomCell(4), BottomCell(9)},
                     PlayerAt(0, lives, 0), <<>>,
                     <<EnemyBulletAt(1, BottomCell(4), 40, 100)>>, <<>>, TRUE)
    IN [g EXCEPT !.eg = GroupSteps(g.eg, 7)]

\* Volley: a triple shot whose middle and right bullets reach the same enemy in
\* the same frame, nine reversals down
Volley(particles) ==
    Playing(9, 3, {BottomCell(4), BottomCell(5), CellId(ENEMY_ROWS - 2, 5)},
            PlayerAt(0, PLAYER_LIVES, 0),
            TripleBulletsAt(1, 0, 17), <<>>, <<>>, particles)

\* Harvest: two bonuses one move above the player, a third far away
Harvest(shape1, shape2, lives) ==
    Playing(0, 42, {BottomCell(0), BottomCell(9)}, PlayerAt(0, lives, 0),
            <<>>, <<>>,
            <<BonusAt(BottomCell(4), 22, 148, shape1),
              BonusAt(BottomCell(5), 22, 148, shape2),
              BonusAt(BottomCell(8), 40, 100, shape1)>>, TRUE)

\* Standstill: a formation frozen ago ms ago, nothing in flight
Standstill(ago) ==
    LET g == Playing(0, 42, {BottomCell(0), BottomCell(4), BottomCell(9)},
                     PlayerAt(0, PLAYER_LIVES, 0), <<>>, <<>>, <<>>, TRUE)
    IN [g EXCEPT !.eg = EnemyGroup_freeze(g.eg, FREEZE_DURATION, StartTime - ago)]

\* Reprieve: an enemy bullet and a bonus both one move above the player
Reprieve(shape_type, lives) ==
    Playing(0, 42, {BottomCell(0), BottomCell(9)}, PlayerAt(0, lives, 0),
            <<>>, <<EnemyBulletAt(1, BottomCell(4), 40, 100)>>,
            <<BonusAt(BottomCell(4), 22, 148, shape_type)>>, TRUE)

\* Barrage: two enemy bullets in a file, one and two moves above the player
Barrage(lives) ==
    Playing(0, 42, {BottomCell(0), BottomCell(9)}, PlayerAt(0, lives, 0),
            <<>>, <<EnemyBulletAt(1, BottomCell(4), 40, 100),
                    EnemyBulletAt(2, BottomCell(4), 40, 99)>>, <<>>, TRUE)

\* Truce: the Endgame with the formation frozen a moment ago
Truce(lives) ==
    LET g == Endgame(lives, -1)
    IN [g EXCEPT !.eg = EnemyGroup_freeze(g.eg, FREEZE_DURATION, StartTime)]

\* SecondWave: the whole formation of a second wave k updates after next_wave
\* built it, nothing in flight
SecondWave(k) ==
    LET g == Playing(0, k, AllCells,
                     PlayerAt(0, PLAYER_LIVES,
                              ENEMY_ROWS * ENEMY_COLS * ENEMY_SCORE + WAVE_CLEAR_BONUS),
                     <<>>, <<>>, <<>>, TRUE)
    IN [g EXCEPT !.wave = 2,
                 !.eg = EliteFormationAt(0, k, AllCells, WaveTwoElites)]

ShapeTypes == {EXTRA_LIFE, FREEZE_ENEMIES, TRIPLE_SHOT, SHIELD, RAPID_FIRE}

BattleScenes ==
    {Opening(particles) : particles \in BOOLEAN}
    \cup {Volley(particles) : particles \in BOOLEAN}
    \cup {Landing(lives) : lives \in 1..2}
    \cup {Endgame(lives, ago) : lives \in 1..2, ago \in {-1, 0}}
    \cup {Shower(lives, ago) : lives \in 1..2, ago \in {-1, 0, SHIELD_DURATION - FrameTime}}
    \cup {Harvest(s1, s2, 1) : s1 \in ShapeTypes, s2 \in {EXTRA_LIFE, SHIELD}}
    \cup {Reprieve(s1, lives) : s1 \in {EXTRA_LIFE, SHIELD}, lives \in 1..2}
    \cup {Standstill(ago) : ago \in {FREEZE_DURATION - FrameTime,
                                     FREEZE_DURATION - FrameTime + 1}}
    \cup {SecondWave(4)}

\* the inputs of a frame: keys held, enemies whose shot roll succeeds, bonus
\* rolls of the frame's kills
BattleInputs ==
    {Quiet,
     [keys |-> [left |-> FALSE, right |-> TRUE], shooters |-> {},
      rolls |-> <<FREEZE_ENEMIES>>],
     [keys |-> [left |-> TRUE, right |-> FALSE], shooters |-> {BottomCell(0), BottomCell(4)},
      rolls |-> <<SHIELD, EXTRA_LIFE>>]}

InitBattle == \E g \in BattleScenes : Holds(g, StartTime)

NextBattle ==
    \/ \E in \in BattleInputs : Tick(FrameTime, in)
    \/ KeyDown("SPACE", SampleOrder(WaveTwoElites))

SpecBattle == InitBattle /\ [][NextBattle]_vars

----------------------------------------------------------------------------
(* The player alone: the calls the game makes on it, one at a time, in a game *)
(* in progress                                                               *)

\* the calls a behaviour is followed for
MaxCalls == 3

\* a game in progress whose player shot last ms ago, picked rapid fire up
\* rapid_ago ms ago and a shield shield_ago ms ago (< 0: never), and has the
\* triple shot armed or not
PlayerScene(last, rapid_ago, shield_ago, armed) ==
    LET p0 == [PlayerAt(0, PLAYER_LIVES, 0) EXCEPT !.last_shot_time = StartTime - last]
        p1 == IF rapid_ago < 0 THEN p0
              ELSE Player_activate_rapid_fire(p0, StartTime - rapid_ago)
        p2 == IF armed THEN Player_activate_triple_shot(p1) ELSE p1
        g == Shielded(Playing(0, 42, {BottomCell(0)}, p2, <<>>, <<>>, <<>>, TRUE),
                      shield_ago)
    IN [g EXCEPT !.ev.since_armed = IF armed THEN 0 ELSE Many]

PlayerScenes ==
    {PlayerScene(last, rapid_ago, shield_ago, armed) :
        last \in {PLAYER_SHOOT_COOLDOWN \div 3 - 1, PLAYER_SHOOT_COOLDOWN - 1,
                  PLAYER_SHOOT_COOLDOWN + 1},
        rapid_ago \in {-1, 0, RAPID_FIRE_DURATION - 2},
        shield_ago \in {-1, SHIELD_DURATION - 2},
        armed \in BOOLEAN}

\* the time between two calls, in ms
CallTimes == {1, 2, PLAYER_SHOOT_COOLDOWN + 1}

\* Player.update(keys) after dt ms
PlayerUpdate(dt, keys) ==
    /\ frame < MaxCalls
    /\ frame' = frame + 1
    /\ now' = now + dt
    /\ Becomes(Game_player_update(Cur, keys, now + dt))

\* Player.hit(); the game calls it only while it is PLAYING, which it leaves
\* when no life is left
PlayerHit ==
    /\ frame < MaxCalls
    /\ state = PLAYING /\ Player_is_alive(player)
    /\ frame' = frame + 1
    /\ Becomes(Game_player_hit(Cur, now))
    /\ UNCHANGED now

\* the SPACE key: Game.player_shoot()
Fire ==
    /\ frame < MaxCalls
    /\ frame' = frame + 1
    /\ Becomes(Game_keydown(Cur, "SPACE", {}, now))
    /\ UNCHANGED now

\* a bonus of shape bonus_type collected: Game.apply_bonus_effect
Pickup(bonus_type) ==
    /\ frame < MaxCalls
    /\ frame' = frame + 1
    /\ Becomes(Game_pickup(Cur, bonus_type, now))
    /\ UNCHANGED now

InitPlayer == \E g \in PlayerScenes : Holds(g, StartTime)

NextPlayer ==
    \/ \E dt \in CallTimes : PlayerUpdate(dt, NoKeys)
    \/ PlayerHit
    \/ Fire
    \/ \E bonus_type \in {TRIPLE_SHOT, SHIELD, RAPID_FIRE} : Pickup(bonus_type)

SpecPlayer == InitPlayer /\ [][NextPlayer]_vars

----------------------------------------------------------------------------
(* The formation alone: its updates and the freeze bonus, one call at a      *)
(* time, in a game in progress                                                *)

\* a game in progress whose formation, built with the elites, stands k right
\* of where it was built after drops reversals and was frozen ago ms ago
\* (< 0: is not frozen)
FormationScene(drops, k, survivors, elites, ago) ==
    LET g == Playing(drops, k, survivors, PlayerAt(0, PLAYER_LIVES, 0),
                     <<>>, <<>>, <<>>, TRUE)
        eg0 == EliteFormationAt(drops, k, survivors, elites)
    IN [g EXCEPT !.wave = IF elites = {} THEN 1 ELSE 2,
                 !.eg = IF ago < 0 THEN eg0
                        ELSE EnemyGroup_freeze(eg0, FREEZE_DURATION, StartTime - ago)]

\* a game in progress whose formation met the right edge n updates ago and
\* is dropping
Dropping(elites, n) ==
    LET g == FormationScene(0, FirstSweep - (IF elites = {} THEN 0 ELSE ELITE_W - ENEMY_W),
                            AllCells, elites, -1)
    IN [g EXCEPT !.eg = GroupSteps(g.eg, n)]

\* formations one update before an edge and at it: the first wave at the
\* right edge and, a reversal later, at the left one; a second wave whose
\* elite in the last column, wider, meets the right edge first
FormationScenes ==
    {FormationScene(0, k, survivors, {}, ago) :
        k \in {FirstSweep - 1, FirstSweep},
        survivors \in {AllCells, {CellId(0, 0), BottomCell(4), BottomCell(ENEMY_COLS - 1)}},
        ago \in {-1, FREEZE_DURATION - 1}}
    \cup {FormationScene(1, k, survivors, {}, ago) :
        k \in {1 - LeftSweep, -LeftSweep},
        survivors \in {AllCells, {CellId(0, 0), BottomCell(4), BottomCell(ENEMY_COLS - 1)}},
        ago \in {-1, FREEZE_DURATION - 1}}
    \cup {FormationScene(0, k, survivors, WaveTwoElites, ago) :
        k \in {FirstSweep - (ELITE_W - ENEMY_W) - 1, FirstSweep - (ELITE_W - ENEMY_W)},
        survivors \in {AllCells, {CellId(0, 0), CellId(2, ENEMY_COLS - 1),
                                  BottomCell(ENEMY_COLS - 1)}},
        ago \in {-1, FREEZE_DURATION - 1}}
    \cup {Dropping(elites, n) : elites \in {{}, WaveTwoElites}, n \in {8, 9}}

\* the time between two calls, in ms
UpdateTimes == {1, 2, FREEZE_DURATION - 1}

\* EnemyGroup.update() after dt ms
GroupUpdate(dt) ==
    /\ frame < MaxCalls
    /\ frame' = frame + 1
    /\ now' = now + dt
    /\ Becomes(Game_group_update(Cur, now + dt))

InitFormation == \E g \in FormationScenes : Holds(g, StartTime)

NextFormation ==
    \/ \E dt \in UpdateTimes : GroupUpdate(dt)
    \/ Pickup(FREEZE_ENEMIES)

SpecFormation == InitFormation /\ [][NextFormation]_vars

----------------------------------------------------------------------------
(* The session: the main loop's events and updates, from the menu of a new   *)
(* Game and from games in progress                                           *)

\* a best score saved by an earlier run, more than the scenes' games reach
SavedBest == 2 * (ENEMY_ROWS * ENEMY_COLS * ENEMY_SCORE + WAVE_CLEAR_BONUS)

\* the game g in a run that loaded the high score best and whose settings
\* menu was left with Particles selected
InSession(g, best) ==
    [g EXCEPT !.high_score = best, !.selected_index = PARTICLES_INDEX,
              !.highscore_json =
                  IF best = 0 THEN NoFile
                  ELSE [NoFile EXCEPT !.exists = TRUE, !.text = JsonDump(best)]]

SessionScenes ==
    {NewGame}
    \cup {InSession(Endgame(1, -1), best) : best \in {0, SavedBest}}
    \cup {InSession(g, 0) : g \in {Endgame(2, -1), Landing(1), Reprieve(EXTRA_LIFE, 1),
                                    Barrage(1), Barrage(2), Standstill(0), Truce(2)}}

\* the inputs of a frame of the session: no arrow key held, the shot roll of
\* one bottom enemy succeeds, a kill drops a shield
SessionInputs ==
    {[keys |-> NoKeys, shooters |-> {BottomCell(4)},
      rolls |-> <<SHIELD>>]}

\* the keys of the KEYDOWN events; LEFT stands for every key no state but
\* SETTINGS handles
SessionKeys == {"SPACE", "ESCAPE", "S", "Q", "LEFT"}

\* the bullets the pool makes in a session: reset_game empties the groups
\* without releasing their bullets, so the pool's active set only grows
MaxCreated == 3

\* one KEYDOWN event of the session; the fire key is followed while the pool
\* has made fewer than MaxCreated bullets
SessionKey(key, sample) ==
    /\ (state = PLAYING /\ key = "SPACE") => pool.created < MaxCreated
    /\ KeyDown(key, sample)

\* one QUIT event handled by handle_events
Quit ==
    /\ InLoop
    /\ Becomes(Game_quit(Cur))
    /\ UNCHANGED <<now, frame>>

InitSession == \E g \in SessionScenes : Holds(g, StartTime)

NextSession ==
    \/ \E in \in SessionInputs : Tick(FrameTime, in)
    \/ \E key \in SessionKeys : SessionKey(key, SampleOrder(WaveTwoElites))
    \/ Quit

SpecSession == InitSession /\ [][NextSession]_vars

----------------------------------------------------------------------------
(* The high-score store: runs of the program in working directories whose   *)
(* highscore.json is missing, unreadable, read-only, damaged or left by an   *)
(* earlier run; a run that ended is followed by the next one                 *)

\* the text {"high_score": value}
ScoreText(value) == <<Tok("{"), Str("high_score"), Tok(":"), value, Tok("}")>>

\* texts of highscore.json: empty, cut short, an array, objects without the
\* field, and the field holding a string, null, NaN, true, false, a float
\* and integers below, at and above the score the scenes' games end with
StoreTexts ==
    {<<>>, <<Tok("{"), Str("high_score"), Tok(":")>>, <<Tok("["), Tok("]")>>,
     <<Tok("{"), Tok("}")>>,
     <<Tok("{"), Str("score"), Tok(":"), Num(FALSE, <<7>>, <<>>), Tok("}")>>,
     <<Tok("{"), Str("high_score"), Tok(":"), Num(FALSE, <<7>>, <<>>), Tok(","),
       Str("high_score"), Tok(":"), Str("x"), Tok("}")>>}
    \cup {ScoreText(v) : v \in {Str("120"), Tok("null"), Tok("NaN"), Tok("true"),
                                Tok("false"), Num(FALSE, <<3>>, <<7>>),
                                Num(TRUE, <<2, 0>>, <<>>)}}
    \cup {JsonDump(n) : n \in {0, 120, ENEMY_ROWS * ENEMY_COLS * ENEMY_SCORE, SavedBest}}

StoreFiles ==
    {NoFile, [NoFile EXCEPT !.writable = FALSE]}
    \cup {[exists |-> TRUE, readable |-> r, writable |-> w, text |-> text] :
            r \in BOOLEAN, w \in BOOLEAN, text \in StoreTexts}

\* the game g in a run started in a working directory whose highscore.json
\* was file
InStore(g, file) ==
    [g EXCEPT !.high_score = Game_load_high_score(file), !.highscore_json = file]

StoreScenes ==
    {InStore(g, file) : g \in {NewGame, Endgame(1, -1)}, file \in StoreFiles}

\* the keys of the KEYDOWN events of these runs
StoreKeys == {"SPACE", "ESCAPE"}

\* one KEYDOWN event outside play
StoreKey(key) ==
    /\ state # PLAYING
    /\ KeyDown(key, SampleOrder(WaveTwoElites))

\* the main loop has ended and the program is started again: Game.__init__
\* in the same working directory, the clock of the new process at its start
Launch ==
    /\ ~InLoop
    /\ Becomes(NewGameWith(highscore_json))
    /\ now' = 0
    /\ frame' = 0

InitStore == \E g \in StoreScenes : Holds(g, StartTime)

NextStore ==
    \/ \E in \in SessionInputs : Tick(FrameTime, in)
    \/ \E key \in StoreKeys : StoreKey(key)
    \/ Quit
    \/ Launch

SpecStore == InitStore /\ [][NextStore]_vars

----------------------------------------------------------------------------
(* The waves: games about to clear their wave, from the first wave to past  *)
(* the wave the elite fraction stops growing at, and the builds that follow  *)

\* the waves the games are followed from
MaxWave == 13

\* the Endgame of wave w, the elites of the wave shot before the last enemy
WaveScenes == {[InSession(Endgame(2, -1), 0) EXCEPT !.wave = w] : w \in 1..MaxWave}

\* orders random.sample draws the cells in: the elites of the second wave
\* first, the cells ascending, the cells descending
WaveSamples ==
    {SampleOrder(WaveTwoElites), SampleOrder({}),
     [i \in 1..(ENEMY_ROWS * ENEMY_COLS) |-> ENEMY_ROWS * ENEMY_COLS + 1 - i]}

WaveKeys == {"SPACE", "ESCAPE", "Q"}

\* one KEYDOWN event of these games: the player does not fire
WaveKey(key, sample) ==
    /\ state = PLAYING => key # "SPACE"
    /\ KeyDown(key, sample)

InitWaves == \E g \in WaveScenes : Holds(g, StartTime)

NextWaves ==
    \/ \E in \in SessionInputs : Tick(FrameTime, in)
    \/ \E key \in WaveKeys, sample \in WaveSamples : WaveKey(key, sample)

SpecWaves == InitWaves /\ [][NextWaves]_vars

----------------------------------------------------------------------------
(* The bullets alone: the updates of the two bullet groups, one frame at a   *)
(* time, from the shot until the bullets have left the screen                *)

\* the calls self.player_bullets.update() and self.enemy_bullets.update() of
\* _update_game_playing
Game_bullets_update(g) ==
    LET pb == BulletsUpdate([group |-> <<>>, pool |-> g.pool], g.player_bullets)
        eb == BulletsUpdate([group |-> <<>>, pool |-> pb.pool], g.enemy_bullets)
    IN [g EXCEPT !.ev = Events(g, "bullets_update"),
                 !.player_bullets = pb.group,
                 !.enemy_bullets = eb.group,
                 !.pool = eb.pool]

\* the pooled bullets, ids from 1 on, of a shot of the elite cell, the last of
\* its column, in a second wave standing k right of where it was built after
\* drops reversals: the spread if its last special attack was never, the
\* single fast bullet if it was just now
EliteBulletsAt(cell, drops, k, special) ==
    LET e == EnemyById(EliteFormationAt(drops, k, {cell}, WaveTwoElites).enemies, cell)
        bs == Enemy_shoot_bullets(
                  [e EXCEPT !.last_special_attack = IF special THEN 0 ELSE StartTime],
                  StartTime)
    IN [i \in 1..Len(bs) |-> [bs[i] EXCEPT !.id = i, !.cls = "EliteBullet"]]

\* a game in progress with these bullets in flight
Flight(pbs, ebs) ==
    Playing(0, 42, {BottomCell(0)}, PlayerAt(0, PLAYER_LIVES, 0), pbs, ebs, <<>>, TRUE)

\* shots just fired: the player's from the start position, its triple shots
\* from the two ends of its range, a regular bottom enemy's, an elite's
\* spreads at the left and at the right edge and its fast single bullet
FlightScenes ==
    {Flight(<<PlayerBulletAt(1, 0, 0)>>, <<>>),
     Flight(TripleBulletsAt(1, -(SCREEN_WIDTH \div 2 - PLAYER_W \div 2), 0), <<>>),
     Flight(TripleBulletsAt(1, SCREEN_WIDTH \div 2 - PLAYER_W \div 2, 0), <<>>),
     Flight(<<PlayerBulletAt(2, 0, 30)>>, <<EnemyBulletAt(1, BottomCell(4), 40, 0)>>),
     Flight(<<>>, EliteBulletsAt(CellId(0, 0), 1, -LeftSweep, TRUE)),
     Flight(<<>>, EliteBulletsAt(CellId(2, ENEMY_COLS - 1), 0,
                                 FirstSweep - (ELITE_W - ENEMY_W), TRUE)),
     Flight(<<>>, EliteBulletsAt(CellId(4, 4), 0, 0, FALSE))}

\* one frame of the bullets
BulletsFlight ==
    /\ Becomes(Game_bullets_update(Cur))
    /\ UNCHANGED <<now, frame>>

InitFlight == \E g \in FlightScenes : Holds(g, StartTime)

NextFlight == BulletsFlight

\* the frames keep coming
SpecFlight == InitFlight /\ [][NextFlight]_vars /\ WF_vars(NextFlight)

----------------------------------------------------------------------------
(* The player's walk: from the game reset_game starts, the player's updates  *)
(* under every combination of the arrow keys, as far as they take it.  No    *)
(* effect is active, so that Player.update does not depend on the clock.     *)

\* the arrow keys held during a frame
HeldKeys == [left : BOOLEAN, right : BOOLEAN]

\* Player.update(keys) of one frame
Walk(keys) ==
    /\ player.exists
    /\ Becomes(Game_player_update(Cur, keys, now))
    /\ UNCHANGED <<now, frame>>

\* SPACE pressed in the menu of a new Game: reset_game
InitWalk == Holds(Game_keydown(NewGame, "SPACE", <<>>, StartTime), StartTime)

NextWalk == \E keys \in HeldKeys : Walk(keys)

SpecWalk == InitWalk /\ [][NextWalk]_vars

----------------------------------------------------------------------------
(* The enemies' fire alone: the calls of enemy_shoot on a second wave just   *)
(* built, one call at a time, moments and whole cooldowns apart              *)

\* the call self.enemy_shoot() of _update_game_playing, at clock t
Game_enemy_shoot_call(g, shooters, t) ==
    Game_enemy_shoot([g EXCEPT !.ev = [Events(g, "enemy_shoot") EXCEPT
                                          !.shooters = shooters]],
                     shooters, t)

\* second waves as next_wave built them: the whole formation, whose column 4
\* ends with an elite, and three survivors, the elite of the first row now the
\* last of its column; the second one frozen as well
SalvoScenes ==
    {FormationScene(0, 0, AllCells, WaveTwoElites, -1),
     FormationScene(0, 0, {CellId(0, 0), CellId(4, 4), BottomCell(ENEMY_COLS - 1)},
                    WaveTwoElites, -1),
     FormationScene(0, 0, {CellId(0, 0), CellId(4, 4), BottomCell(ENEMY_COLS - 1)},
                    WaveTwoElites, 0)}

\* the enemies whose can_shoot() roll succeeds in a call
SalvoShooters ==
    {{CellId(4, 4)}, {CellId(0, 0), CellId(4, 4)}, {BottomCell(ENEMY_COLS - 1)}}

\* the time between two calls, in ms
SalvoTimes == {1, SPECIAL_ATTACK_COOLDOWN - 1, SPECIAL_ATTACK_COOLDOWN}

\* Game.enemy_shoot() after dt ms
EnemyShoot(dt, shooters) ==
    /\ frame < MaxCalls
    /\ frame' = frame + 1
    /\ now' = now + dt
    /\ Becomes(Game_enemy_shoot_call(Cur, shooters, now + dt))

InitSalvo == \E g \in SalvoScenes : Holds(g, StartTime)

NextSalvo == \E dt \in SalvoTimes, shooters \in SalvoShooters : EnemyShoot(dt, shooters)

SpecSalvo == InitSalvo /\ [][NextSalvo]_vars

----------------------------------------------------------------------------
(* The settings: the menu and the settings menu of a run that has not started *)
(* a game, under the keys the two handle                                      *)

\* the keys of the KEYDOWN events of these runs
SettingsKeys == {"S", "UP", "DOWN", "LEFT", "RIGHT", "ESCAPE"}

\* Game.__init__: sound is on (SOUND_ENABLED); music is as MUSIC_ENABLED has
\* it, on or off
InitSettings == \E music \in BOOLEAN : Holds([NewGame EXCEPT !.music_enabled = music], 0)

NextSettings == \E key \in SettingsKeys : KeyDown(key, <<>>)

SpecSettings == InitSettings /\ [][NextSettings]_vars

----------------------------------------------------------------------------
(* The pool: the player's shots and the bullets' flight, one call at a time, *)
(* in games whose pool holds no released bullet, one, and as many as          *)
(* pool_size allows and one less                                              *)

\* a game in progress after n plain player bullets left the screen by the top
\* and none was taken again, with two more about to leave it; the triple shot
\* is armed or not
PoolScene(n, armed) ==
    LET p == PlayerAt(0, PLAYER_LIVES, 0)
        g == Playing(0, 42, {BottomCell(0)},
                     IF armed THEN Player_activate_triple_shot(p) ELSE p,
                     <<PlayerBulletAt(n + 1, 0, 77), PlayerBulletAt(n + 2, 30, 77)>>,
                     <<>>, <<>>, TRUE)
    IN [g EXCEPT !.pool = [available |-> [i \in 1..n |-> PlayerBulletAt(i, 0, 78)],
                           active |-> {n + 1, n + 2},
                           created |-> n + 2],
                 !.ev.since_armed = IF armed THEN 0 ELSE Many]

PoolScenes ==
    {PoolScene(n, armed) : n \in {0, 1, POOL_SIZE - 1, POOL_SIZE}, armed \in BOOLEAN}

\* one frame of the bullets, as a call
FlightCall ==
    /\ frame < MaxCalls
    /\ frame' = frame + 1
    /\ Becomes(Game_bullets_update(Cur))
    /\ UNCHANGED now

InitPool == \E g \in PoolScenes : Holds(g, StartTime)

NextPool ==
    \/ FlightCall
    \/ Fire
    \/ Pickup(TRIPLE_SHOT)
    \/ PlayerUpdate(PLAYER_SHOOT_COOLDOWN + 1, NoKeys)

SpecPool == InitPool /\ [][NextPool]_vars

----------------------------------------------------------------------------
(* The descent: games in which the player neither moves nor fires and no     *)
(* enemy's shot roll succeeds, frame after frame for as long as they are     *)
(* played                                                                     *)

\* the frames a descent is followed for: more than any of DescentScenes takes
\* to reach the player zone
MaxDescent == 4000

\* the cells of the columns from col on
RightCells(col) == {c \in AllCells : (c - 1) % ENEMY_COLS >= col}

\* the first wave whole, with two player bullets about to reach it, and with
\* its two left columns killed; the second wave whole, with its wider elites;
\* a formation just frozen
DescentScenes ==
    {Opening(TRUE),
     Playing(0, 42, RightCells(2), PlayerAt(0, PLAYER_LIVES, 0), <<>>, <<>>, <<>>, TRUE),
     SecondWave(4),
     Standstill(0)}

\* one pass of the main loop's update() in a game being played, a frame after
\* the one before
Frame(in) ==
    /\ InLoop
    /\ state = PLAYING
    /\ frame < MaxDescent
    /\ now' = now + FrameTime
    /\ frame' = frame + 1
    /\ Becomes(Game_update(Cur, in, now + FrameTime))

InitDescent == \E g \in DescentScenes : Holds(g, StartTime)

NextDescent == Frame(Quiet)

\* a frame is counted: what every step of Frame does to the frame counter, and
\* possible exactly when Frame is
FrameComes ==
    /\ InLoop
    /\ state = PLAYING
    /\ frame < MaxDescent
    /\ frame' = frame + 1

\* the main loop keeps running: while a frame can come, one does
SpecDescent == InitDescent /\ [][NextDescent]_vars /\ WF_frame(FrameComes)

----------------------------------------------------------------------------
(* Interludes: games whose shield, rapid fire and freeze are running when    *)
(* they are paused or their wave is cleared, and that are taken up again     *)
(* after a short or a long wait                                              *)

\* the game g with a shield and rapid fire picked up and the formation frozen
\* ago ms ago
WithEffects(g, ago) ==
    [g EXCEPT !.player = Player_activate_rapid_fire(
                             Player_activate_shield(@, StartTime - ago), StartTime - ago),
              !.eg = EnemyGroup_freeze(@, FREEZE_DURATION, StartTime - ago)]

\* LastShot: the player, who fired a cooldown ago and moved left since, has
\* one bullet about to kill the last enemy and one on its way; an enemy bullet
\* and a bonus are falling, neither near the player
LastShot ==
    Playing(0, 42, {BottomCell(4)},
            [PlayerAt(-40, 2, (ENEMY_ROWS * ENEMY_COLS - 1) * ENEMY_SCORE)
                EXCEPT !.last_shot_time = StartTime - PLAYER_SHOOT_COOLDOWN],
            <<PlayerBulletAt(1, 0, 42), PlayerBulletAt(3, -40, 5)>>,
            <<EnemyBulletAt(2, BottomCell(4), 40, 60)>>,
            <<BonusAt(BottomCell(4), 22, 60, TRIPLE_SHOT)>>, TRUE)

\* the effects just picked up, or running for all but a frame of the shield's
\* duration
InterludeScenes ==
    {WithEffects(g, ago) : g \in {LastShot, Barrage(2)},
                           ago \in {0, SHIELD_DURATION - FrameTime}}

\* the time between two passes of the main loop: a frame, or a wait that
\* only a game not being played is left for
InterludeTimes == {FrameTime, SHIELD_DURATION - FrameTime, FREEZE_DURATION}

\* one pass of the main loop's update(), dt after the pass before
Wait(dt) ==
    /\ InLoop
    /\ frame < MaxCalls
    /\ state = PLAYING => dt = FrameTime
    /\ now' = now + dt
    /\ frame' = frame + 1
    /\ Becomes(Game_update(Cur, Quiet, now + dt))

InitInterlude == \E g \in InterludeScenes : Holds(g, StartTime)

NextInterlude ==
    \/ \E dt \in InterludeTimes : Wait(dt)
    \/ \E key \in {"ESCAPE", "SPACE"} : KeyDown(key, SampleOrder(WaveTwoElites))

SpecInterlude == InitInterlude /\ [][NextInterlude]_vars

----------------------------------------------------------------------------
(* Properties of the battle: the frames of games in progress *)

\* C1: at the end of a Playing frame the outcome is decided in the order
\* lives == 0, formation in the player zone, formation empty, and only the
\* first that holds is acted on; with no lives left and the formation empty
\* the game is over, the wave is not cleared and no wave-clear bonus is scored
C1_TerminalPriority ==
    (ev.op = "update" /\ ev.s3.taken) =>
        LET v == ev.s3
            dead == v.player.lives = 0
            touches == \E e \in v.enemies :
                           Bottom(EnemyRect(e)) > v.player.y - PLAYER_ZONE_BUFFER
            empty == v.enemies = {}
            cleared == \E i \in 1..Len(ev.sounds) : ev.sounds[i] = "wave_clear"
        IN /\ dead => /\ state = GAME_OVER
                      /\ player.score = v.player.score
                      /\ ~cleared
           /\ (~dead /\ touches) => /\ state = GAME_OVER
                                    /\ player.lives = 0
                                    /\ player.score = v.player.score
                                    /\ ~cleared
           /\ (~dead /\ ~touches /\ empty) =>
                  /\ state = WAVE_CLEAR
                  /\ player.score = v.player.score + WAVE_CLEAR_BONUS
                  /\ player.lives = v.player.lives
           /\ (~dead /\ ~touches /\ ~empty) =>
                  /\ state = PLAYING
                  /\ player.score = v.player.score
                  /\ player.lives = v.player.lives

\* C1 happens: the last enemy and the last life went in the same frame
C1_Witness ==
    /\ ev.op = "update" /\ ev.s3.taken
    /\ ev.mid.enemies # {} /\ ev.mid.player.lives > 0
    /\ ev.s3.enemies = {} /\ ev.s3.player.lives = 0
    /\ state = GAME_OVER

\* C4: stage 1 visits the player bullets in order; a bullet overlapping an
\* enemy that is live when it is visited goes with every enemy it overlaps,
\* any other bullet stays; an enemy is killed once, each kill scores
\* ENEMY_SCORE and spawns one explosion (none with particles disabled); one
\* bullet on one enemy of 50 leaves 49
C4_Stage1 ==
    ev.s1.taken =>
        LET before == ev.mid
            after == ev.s1
            pbs == before.player_bullets
            over(b, e) == colliderect(BulletRect(b), EnemyRect(e))
            liveAt(i) == {e \in before.enemies : \A j \in 1..(i-1) : ~over(pbs[j], e)}
            hits(i) == {e \in liveAt(i) : over(pbs[i], e)}
            stay == {i \in 1..Len(pbs) : hits(i) = {}}
            removed == before.enemies \ after.enemies
        IN /\ SeqRange(after.player_bullets) = {pbs[i] : i \in stay}
           /\ Len(after.player_bullets) = Cardinality(stay)
           /\ after.enemies = before.enemies \ UNION {hits(i) : i \in 1..Len(pbs)}
           /\ ev.kills = Cardinality(removed)
           /\ after.player.score = before.player.score + ENEMY_SCORE * Cardinality(removed)
           /\ after.explosions = before.explosions +
                                 (IF particles_enabled THEN Cardinality(removed) ELSE 0)
           /\ ( /\ Cardinality(before.enemies) = ENEMY_ROWS * ENEMY_COLS
                /\ Cardinality({i \in 1..Len(pbs) : hits(i) # {}}) = 1
                /\ \A i \in 1..Len(pbs) : Cardinality(hits(i)) <= 1 )
              => /\ Cardinality(after.enemies) = ENEMY_ROWS * ENEMY_COLS - 1
                 /\ after.player.score = before.player.score + ENEMY_SCORE

\* C4 happens: one bullet took one enemy of the 50, another bullet flew on
C4_Witness ==
    /\ ev.s1.taken
    /\ Cardinality(ev.mid.enemies) = ENEMY_ROWS * ENEMY_COLS
    /\ Cardinality(ev.s1.enemies) = ENEMY_ROWS * ENEMY_COLS - 1
    /\ Len(ev.mid.player_bullets) = 2 /\ Len(ev.s1.player_bullets) = 1
    /\ ev.s1.player.score = ev.mid.player.score + ENEMY_SCORE
    /\ ev.s1.explosions = ev.mid.explosions + 1

\* C5: the player bullets and the enemy bullets are disjoint, each bullet
\* carries its group's owner (recycled ones too), stage 1 tests only player
\* bullets against enemies and leaves the enemy bullets and the player's
\* lives and shield alone, stage 2 tests only enemy bullets against the
\* player and leaves the player bullets and the enemies alone
C5_OwnershipPartition ==
    LET pids == {player_bullets[i].id : i \in 1..Len(player_bullets)}
        eids == {enemy_bullets[i].id : i \in 1..Len(enemy_bullets)}
        over(a, b) == colliderect(a, b)
    IN /\ pids \cap eids = {}
       /\ Cardinality(pids) = Len(player_bullets)
       /\ Cardinality(eids) = Len(enemy_bullets)
       /\ \A i \in 1..Len(player_bullets) : player_bullets[i].owner = "player"
       /\ \A i \in 1..Len(enemy_bullets) : enemy_bullets[i].owner = "enemy"
       /\ ev.s2.taken =>
            /\ ev.s1.enemy_bullets = ev.mid.enemy_bullets
            /\ ev.s1.player.lives = ev.mid.player.lives
            /\ ev.s1.player.shield_active = ev.mid.player.shield_active
            /\ \A e \in ev.mid.enemies \ ev.s1.enemies :
                   \E b \in SeqRange(ev.mid.player_bullets) :
                       over(BulletRect(b), EnemyRect(e))
            /\ ev.s2.player_bullets = ev.s1.player_bullets
            /\ ev.s2.enemies = ev.s1.enemies
            /\ ev.s2.player.score = ev.s1.player.score
            /\ ev.s2.player # ev.s1.player =>
                   \E b \in SeqRange(ev.s1.enemy_bullets) :
                       over(BulletRect(b), PlayerRect(ev.s1.player))

\* C5 happens: a player bullet and an enemy bullet at the same coordinates in
\* the same frame, and both fly on
C5_Witness ==
    /\ ev.s3.taken
    /\ \E b \in SeqRange(ev.mid.player_bullets) : \E c \in SeqRange(ev.mid.enemy_bullets) :
          /\ b.x = c.x /\ b.y = c.y
          /\ b \in SeqRange(player_bullets)
          /\ c \in SeqRange(enemy_bullets)

\* C6: in stage 2 every enemy bullet overlapping the player is removed, the
\* others are untouched, and however many overlapped the player is hit once:
\* an active unexpired shield is cleared and no life is lost, otherwise
\* exactly one life is lost
C6_Stage2 ==
    ev.s2.taken =>
        LET before == ev.s1
            after == ev.s2
            p == before.player
            over(b) == colliderect(PlayerRect(p), BulletRect(b))
            hitting == {b \in SeqRange(before.enemy_bullets) : over(b)}
            shielded == p.shield_active /\ now < p.shield_end_time
        IN /\ after.enemy_bullets = SelectSeq(before.enemy_bullets, LAMBDA b : b \notin hitting)
           /\ hitting = {} => after.player = p /\ ev.hit_calls = 0
           /\ (hitting # {} /\ shielded) =>
                  /\ after.player.lives = p.lives
                  /\ ~after.player.shield_active
                  /\ after.player.shield_end_time = 0
           /\ (hitting # {} /\ ~shielded) =>
                  /\ after.player.lives = p.lives - 1
                  /\ after.player.shield_active = p.shield_active
                  /\ after.player.shield_end_time = p.shield_end_time

\* C6 happens: two enemy bullets overlapped the player, a third did not, and
\* one life went
C6_Witness ==
    /\ ev.s2.taken
    /\ Cardinality({b \in SeqRange(ev.s1.enemy_bullets) :
                       colliderect(PlayerRect(ev.s1.player), BulletRect(b))}) = 2
    /\ Len(ev.s2.enemy_bullets) = Len(ev.s1.enemy_bullets) - 2
    /\ ev.s2.enemy_bullets # <<>>
    /\ ev.s2.player.lives = ev.s1.player.lives - 1

\* C7: in stage 3 every bonus overlapping the player is removed and scores
\* BONUS_SCORE once, and the effects applied are exactly those of the shape
\* types collected: 0 a life, 1 the formation frozen for FREEZE_DURATION from
\* now, 2 triple shot armed, 3 the shield until now + SHIELD_DURATION, 4 rapid
\* fire until now + RAPID_FIRE_DURATION; anything else is unchanged
C7_BonusPickup ==
    ev.s3.taken =>
        LET before == ev.s2
            after == ev.s3
            p == before.player
            q == after.player
            over(b) == colliderect(PlayerRect(p), BonusRect(b))
            idx == {i \in 1..Len(before.bonuses) : over(before.bonuses[i])}
            got(type) == {i \in idx : before.bonuses[i].shape_type = type}
        IN /\ after.bonuses = SelectSeq(before.bonuses, LAMBDA b : ~over(b))
           /\ q.score = p.score + BONUS_SCORE * Cardinality(idx)
           /\ q.lives = p.lives + Cardinality(got(EXTRA_LIFE))
           /\ IF got(FREEZE_ENEMIES) # {}
              THEN after.frozen /\ after.freeze_end_time = now + FREEZE_DURATION
              ELSE /\ after.frozen = before.frozen
                   /\ after.freeze_end_time = before.freeze_end_time
           /\ q.triple_shot_active = (p.triple_shot_active \/ got(TRIPLE_SHOT) # {})
           /\ IF got(SHIELD) # {}
              THEN q.shield_active /\ q.shield_end_time = now + SHIELD_DURATION
              ELSE /\ q.shield_active = p.shield_active
                   /\ q.shield_end_time = p.shield_end_time
           /\ IF got(RAPID_FIRE) # {}
              THEN q.rapid_fire_active /\ q.rapid_fire_end_time = now + RAPID_FIRE_DURATION
              ELSE /\ q.rapid_fire_active = p.rapid_fire_active
                   /\ q.rapid_fire_end_time = p.rapid_fire_end_time
           /\ q.x = p.x /\ q.y = p.y /\ q.last_shot_time = p.last_shot_time
           /\ after.enemies = before.enemies
           /\ after.player_bullets = before.player_bullets
           /\ after.enemy_bullets = before.enemy_bullets

\* C7 happens: a freeze and a shield picked up in one frame, a third bonus
\* left falling
C7_Witness ==
    /\ ev.s3.taken
    /\ ev.collected = <<FREEZE_ENEMIES, SHIELD>>
    /\ Len(ev.s2.bonuses) = 3 /\ Len(ev.s3.bonuses) = 1
    /\ ev.s3.player.score = ev.s2.player.score + 2 * BONUS_SCORE
    /\ ev.s3.frozen /\ ~ev.s2.frozen
    /\ ev.s3.player.lives = ev.s2.player.lives

----------------------------------------------------------------------------
(* Properties of the player *)

\* C3: a hit on an active unexpired shield clears the shield (flag false,
\* expiry 0) and costs no life; any other hit costs exactly one life and
\* leaves the shield fields alone; the second hit after a shield's activation
\* always costs a life
C3_ShieldConsumption ==
    ev.op = "hit" =>
        LET p == ev.pre.player
            shielded == p.shield_active /\ now < p.shield_end_time
        IN /\ shielded => player = [p EXCEPT !.shield_active = FALSE,
                                             !.shield_end_time = 0]
           /\ ~shielded => player = [p EXCEPT !.lives = p.lives - 1]
           /\ ev.since_shield >= 2 => player.lives = p.lives - 1

\* C3 happens: the second of two hits since the shield's activation, the first
\* of which the shield absorbed
C3_Witness ==
    /\ ev.op = "hit"
    /\ ev.since_shield = 2
    /\ ~ev.pre.player.shield_active /\ ev.pre.player.shield_end_time = 0
    /\ ev.pre.player.lives = PLAYER_LIVES
    /\ player.lives = PLAYER_LIVES - 1

\* C8: a fire intent the cooldown rejects adds no bullet and leaves the armed
\* flag and last_shot_time alone; the first accepted shot after the triple
\* shot is armed adds exactly 3 bullets (centres at the player's centre -10,
\* 0, +10, drift -0.2, 0, +0.2) and clears the flag; the next accepted shot
\* adds exactly 1 straight bullet
C8_TripleShotOnce ==
    ev.op = "fire" =>
        LET p == ev.pre.player
            old == ev.pre.player_bullets
            n == Len(player_bullets) - Len(old)
            new(i) == player_bullets[Len(old) + i]
            cx == CenterX(PlayerRect(p))
            accepted == now - p.last_shot_time >
                            (IF p.rapid_fire_active /\ now < p.rapid_fire_end_time
                             THEN PLAYER_SHOOT_COOLDOWN \div 3 ELSE PLAYER_SHOOT_COOLDOWN)
        IN /\ n >= 0 /\ SubSeq(player_bullets, 1, Len(old)) = old
           /\ ~accepted => n = 0 /\ player = p
           /\ accepted =>
                /\ player = [p EXCEPT !.last_shot_time = now, !.triple_shot_active = FALSE]
                /\ n = IF p.triple_shot_active THEN 3 ELSE 1
                /\ p.triple_shot_active <=> ev.since_armed = 1
                /\ ev.since_armed = 1 =>
                     /\ n = 3
                     /\ \A i \in 1..3 :
                          /\ CenterX(BulletRect(new(i))) = cx + (i - 2) * 10
                          /\ new(i).x_velocity = (i - 2) * 2
                          /\ new(i).owner = "player"
                /\ ev.since_armed >= 2 =>
                     /\ n = 1
                     /\ CenterX(BulletRect(new(1))) = cx
                     /\ new(1).x_velocity = 0 /\ new(1).x_direction = 0

\* C8 happens: the shot after the triple shot, one straight bullet added to
\* the three
C8_Witness ==
    /\ ev.op = "fire"
    /\ ev.since_armed = 2
    /\ Len(ev.pre.player_bullets) = 3
    /\ \A i \in 1..3 : ev.pre.player_bullets[i].cls = "TripleShotBullet"
    /\ Len(player_bullets) = 4
    /\ player_bullets[4].cls = "Bullet"

\* C9: a fire intent at t is accepted iff t - last_shot_time exceeds the
\* effective cooldown: PLAYER_SHOOT_COOLDOWN // 3 = 83 while rapid fire is
\* active and t is before its expiry, PLAYER_SHOOT_COOLDOWN = 250 otherwise;
\* with rapid fire, 82 and 83 ms after the last shot it is rejected and 84 ms
\* after it is accepted; two successive shots are more than the cooldown apart
C9_ShootingCadence ==
    ev.op = "fire" =>
        LET p == ev.pre.player
            rapid == p.rapid_fire_active /\ now < p.rapid_fire_end_time
            cooldown == IF rapid THEN 83 ELSE 250
            since == now - p.last_shot_time
            shot == Len(player_bullets) > Len(ev.pre.player_bullets)
        IN /\ shot <=> since > cooldown
           /\ shot <=> Player_can_shoot(p, now)
           /\ (rapid /\ since \in {83 - 1, 83}) => ~shot
           /\ (rapid /\ since = 83 + 1) => shot
           /\ shot => player.last_shot_time - p.last_shot_time > cooldown
           /\ ~shot => player.last_shot_time = p.last_shot_time

\* C9 happens: with rapid fire, a shot accepted 84 ms after the last one
C9_Witness ==
    /\ ev.op = "fire"
    /\ ev.pre.player.rapid_fire_active /\ now < ev.pre.player.rapid_fire_end_time
    /\ now - ev.pre.player.last_shot_time = PLAYER_SHOOT_COOLDOWN \div 3 + 1
    /\ player.last_shot_time = now
    /\ Len(player_bullets) = Len(ev.pre.player_bullets) + 1

----------------------------------------------------------------------------
(* Properties of the formation *)

\* C2 as stated: whenever a live enemy is at an edge it moves towards (right
\* >= SCREEN_WIDTH - 10 moving right, left <= 10 moving left), one
\* EnemyGroup.update() flips every live enemy's direction and leaves every
\* live enemy a positive pending drop
C2_AsStated ==
    ev.op = "group_update" =>
        LET before == ev.pre.enemies
            atEdge(e) == \/ Right(EnemyRect(e)) >= SCREEN_WIDTH - 10 /\ e.direction > 0
                         \/ e.x <= 10 /\ e.direction < 0
        IN (\E e \in before : atEdge(e)) =>
               /\ {e.id : e \in eg.enemies} = {e.id : e \in before}
               /\ \A e \in before : \A a \in eg.enemies :
                      a.id = e.id => a.direction = -e.direction /\ a.drop_distance > 0

\* C2, amended: the same provided the formation is not frozen at that update
\* (no freeze is active, or the clock has passed its end time); a formation
\* still frozen is left as it is, at an edge or not
C2_ReversalAtomicity ==
    ev.op = "group_update" =>
        LET before == ev.pre.enemies
            atEdge(e) == \/ Right(EnemyRect(e)) >= SCREEN_WIDTH - 10 /\ e.direction > 0
                         \/ e.x <= 10 /\ e.direction < 0
            stillFrozen == ev.pre.frozen /\ now <= ev.pre.freeze_end_time
        IN /\ ((\E e \in before : atEdge(e)) /\ ~stillFrozen) =>
                 /\ {e.id : e \in eg.enemies} = {e.id : e \in before}
                 /\ \A e \in before : \A a \in eg.enemies :
                        a.id = e.id => a.direction = -e.direction /\ a.drop_distance > 0
           /\ stillFrozen => eg.enemies = before

\* C2 happens: one elite alone at the right edge, and the whole formation,
\* not frozen, has turned
C2_Witness ==
    /\ ev.op = "group_update"
    /\ ~ev.pre.frozen
    /\ Cardinality(ev.pre.enemies) = ENEMY_ROWS * ENEMY_COLS
    /\ Cardinality({e \in ev.pre.enemies :
                       Right(EnemyRect(e)) >= SCREEN_WIDTH - 10 /\ e.direction > 0}) = 1
    /\ \A a \in eg.enemies : a.direction = -1 /\ a.drop_distance > 0

\* C10: with the formation frozen at T for FREEZE_DURATION, an update at a
\* time in [T, T + 4999] leaves every enemy's x, y, direction and pending
\* drop as they were and the formation frozen; an update at T + 5001 clears
\* the frozen flag and moves every enemy
C10_FreezeTiming ==
    ev.op = "group_update" =>
        LET before == ev.pre
            T == before.freeze_end_time - FREEZE_DURATION
            same(a, e) == /\ a.x = e.x /\ a.y = e.y
                          /\ a.direction = e.direction
                          /\ a.drop_distance = e.drop_distance
        IN /\ (before.frozen /\ now >= T /\ now <= T + 4999) =>
                 /\ eg.frozen
                 /\ {e.id : e \in eg.enemies} = {e.id : e \in before.enemies}
                 /\ \A e \in before.enemies : \A a \in eg.enemies :
                        a.id = e.id => same(a, e)
           /\ (before.frozen /\ now >= T + 5001) =>
                 /\ ~eg.frozen
                 /\ {e.id : e \in eg.enemies} = {e.id : e \in before.enemies}
                 /\ \A e \in before.enemies : \A a \in eg.enemies :
                        a.id = e.id =>
                            \/ a.y = e.y /\ a.x = e.x + e.direction * ENEMY_SPEED_X
                                         /\ a.direction = e.direction
                            \/ a.x = e.x /\ a.y > e.y

\* C10 happens: the update at T + 5001 thawed the formation and moved it
C10_Witness ==
    /\ ev.op = "group_update"
    /\ ev.pre.frozen /\ ~eg.frozen
    /\ now = ev.pre.freeze_end_time + 1
    /\ eg.enemies # ev.pre.enemies
    /\ eg.enemies # {}

----------------------------------------------------------------------------
(* Properties of the freeze, the effects and the outcome of a frame *)

\* the identities of the bullets of a group
BulletIds(bs) == {bs[i].id : i \in 1..Len(bs)}

\* the sound was played by the last handler
Played(sound) == \E i \in 1..Len(ev.sounds) : ev.sounds[i] = sound

\* C11: in a Playing frame that finds the formation frozen with its freeze not
\* yet expired (the clock has not passed freeze_end_time), enemy fire spawns
\* no enemy bullet, whichever enemies' shot rolls succeed: no shot is counted,
\* no enemy_shoot sound is played, and the enemy bullets check_collisions
\* sees are among those the frame started with
C11_FrozenNoFire ==
    (ev.op = "update" /\ ev.mid.taken /\ ev.pre.frozen /\ now <= ev.pre.freeze_end_time)
    => /\ ev.enemy_shots = 0
       /\ ~Played("enemy_shoot")
       /\ BulletIds(ev.mid.enemy_bullets) \subseteq BulletIds(ev.pre.enemy_bullets)
       /\ ev.mid.frozen

\* a frame at the very end of a freeze (clock = freeze_end_time) in which the
\* shot roll of a bottom enemy succeeded and nothing was fired
C11_Witness ==
    /\ ev.op = "update" /\ ev.mid.taken /\ ev.pre.frozen
    /\ now = ev.pre.freeze_end_time
    /\ \E e \in ev.mid.enemies : e.id \in ev.shooters /\ e.id \in SeqRange(eg.cache)
    /\ ev.enemy_shots = 0
    /\ enemy_bullets = <<>>

\* C12: in a Playing frame whose clock is at or past the expiry time of a
\* shield or of rapid fire the frame started with, every component reads the
\* effect as inactive in that frame: a hit costs a life and is not played as
\* shield_hit, the cooldown of can_shoot is the plain one, and the flags the
\* renderer is shown are cleared (unless the effect was picked up anew in
\* this frame)
C12_ExpiryNotLazy ==
    (ev.op = "update" /\ ev.mid.taken)
    => /\ (ev.pre.player.shield_active /\ now >= ev.pre.player.shield_end_time)
          => /\ ev.hit_calls > 0 => ev.s2.player.lives = ev.s1.player.lives - 1
             /\ ~Played("shield_hit")
             /\ ~ev.s2.player.shield_active
             /\ player.shield_active
                    => \E i \in 1..Len(ev.collected) : ev.collected[i] = SHIELD
       /\ (ev.pre.player.rapid_fire_active /\ now >= ev.pre.player.rapid_fire_end_time)
          => /\ ~ev.mid.player.rapid_fire_active
             /\ EffectiveCooldown(ev.mid.player, now) = PLAYER_SHOOT_COOLDOWN
             /\ player.rapid_fire_active
                    => \E i \in 1..Len(ev.collected) : ev.collected[i] = RAPID_FIRE

\* C13: lives == 0 is terminal: a Playing frame in which the player's lives
\* are 0 at any point (after the hit of stage 2, after the pickups of stage 3,
\* or at its end) ends in GAME_OVER with the lives still 0; an extra life
\* collected in the frame of the fatal hit does not bring them back
C13_ZeroLivesTerminal ==
    (/\ ev.op = "update" /\ ev.mid.taken
     /\ \/ ev.s2.player.lives = 0
        \/ ev.s3.player.lives = 0
        \/ player.lives = 0)
    => state = GAME_OVER /\ player.lives = 0

\* C16: check_player_collision is true exactly when the bottom edge of some
\* live enemy is greater than player.rect.top - 50; when that is so at the end
\* of a Playing frame whose player still has a life, the lives are set to 0
\* and the game is over in that frame; when it is not, that frame leaves the
\* lives as check_collisions left them and the game is not over
C16_InvasionTrigger ==
    LET lowest(e) == e.y + (IF e.is_elite THEN ELITE_H ELSE ENEMY_H)
        reached(enemies, p) == \E e \in enemies : lowest(e) > p.y - PLAYER_ZONE_BUFFER
    IN /\ player.exists
          => (EnemyGroup_check_player_collision(eg, PlayerRect(player))
                 <=> reached(eg.enemies, player))
       /\ (ev.op = "update" /\ ev.mid.taken /\ ev.s3.player.lives > 0)
          => IF reached(ev.s3.enemies, ev.s3.player)
             THEN /\ player.lives = 0
                  /\ state = GAME_OVER
                  /\ Played("game_over")
             ELSE /\ player.lives = ev.s3.player.lives
                  /\ state # GAME_OVER

\* a frame whose drop took the lowest enemy one pixel into the zone of a
\* player that check_collisions left with a life: the lives are gone and the
\* game is over
C16_Witness ==
    /\ ev.op = "update" /\ ev.mid.taken
    /\ ev.s3.player.lives > 0
    /\ \A e \in ev.pre.enemies : Bottom(EnemyRect(e)) < ev.pre.player.y - PLAYER_ZONE_BUFFER
    /\ \E e \in ev.s3.enemies : Bottom(EnemyRect(e)) = ev.s3.player.y - PLAYER_ZONE_BUFFER + 1
    /\ player.lives = 0 /\ state = GAME_OVER

----------------------------------------------------------------------------
(* Properties of the session: any sequence of events and updates *)

\* C14: the lives counter is never negative, at the end of a handler and
\* between the stages of check_collisions, and a hit is only ever applied to
\* a player who has a life left
C14_LivesNonNegative ==
    /\ player.lives >= 0
    /\ \A v \in {ev.pre, ev.mid, ev.s1, ev.s2, ev.s3} : v.player.lives >= 0
    /\ ev.hit_calls > 0 => ev.s1.player.lives > 0

\* the second of two hits in two frames has taken the last life and the game
\* is over
C14_Witness ==
    /\ ev.op = "update" /\ ev.hit_calls = 1
    /\ ev.pre.player.lives = 1 /\ ev.pre.player.lives < PLAYER_LIVES
    /\ frame = 2
    /\ player.lives = 0 /\ state = GAME_OVER

\* C15: the score is never negative and no event or update lowers it: a step
\* adds ENEMY_SCORE for each enemy it removed, BONUS_SCORE for each bonus it
\* collected and WAVE_CLEAR_BONUS if it cleared the wave, and nothing else;
\* only reset_game (SPACE in the menu) sets it to 0
C15_ScoreMonotone ==
    [][LET reset == state = MENU /\ ev'.op = "keydown" /\ ev'.key = "SPACE"
           kills == IF ev'.mid.taken
                    THEN Cardinality(ev'.mid.enemies) - Cardinality(ev'.s1.enemies)
                    ELSE 0
           pickups == IF ev'.mid.taken
                      THEN Len(ev'.s2.bonuses) - Len(ev'.s3.bonuses)
                      ELSE 0
           cleared == state = PLAYING /\ state' = WAVE_CLEAR
       IN /\ player'.score >= 0
          /\ IF reset THEN player'.score = 0
             ELSE /\ player'.score >= player.score
                  /\ player'.score = player.score + ENEMY_SCORE * kills
                                       + BONUS_SCORE * pickups
                                       + (IF cleared THEN WAVE_CLEAR_BONUS ELSE 0)]_vars

\* a frame that removed the last enemy and cleared the wave has added
\* ENEMY_SCORE + WAVE_CLEAR_BONUS to a score that was not 0
C15_Witness ==
    /\ ev.op = "update" /\ ev.mid.taken
    /\ state = WAVE_CLEAR
    /\ ev.pre.player.score > 0
    /\ player.score = ev.pre.player.score + ENEMY_SCORE + WAVE_CLEAR_BONUS

\* C17: a Playing frame that ends with the formation empty and the player
\* alive (so neither game-over condition holds) enters WAVE_CLEAR, plays
\* wave_clear and adds exactly WAVE_CLEAR_BONUS to the score; WAVE_CLEAR is
\* entered in no other way, and while the session stays in it no update() and
\* no event changes the score, so the bonus is awarded once per cleared wave
C17_WaveClear ==
    [][LET frame_end == ev'.s3
           clear == /\ state = PLAYING /\ ev'.op = "update"
                    /\ frame_end.enemies = {}
                    /\ frame_end.player.lives > 0
       IN /\ clear => /\ state' = WAVE_CLEAR
                      /\ player'.score = frame_end.player.score + WAVE_CLEAR_BONUS
                      /\ Cardinality({i \in 1..Len(ev'.sounds) :
                                        ev'.sounds[i] = "wave_clear"}) = 1
          /\ (state' = WAVE_CLEAR /\ state # WAVE_CLEAR) => clear
          /\ (state = WAVE_CLEAR /\ ev'.op = "update")
             => /\ state' = WAVE_CLEAR
                /\ ev'.sounds = <<>>
          /\ state = WAVE_CLEAR => player'.score = player.score]_vars

\* an update() made while the session was in WAVE_CLEAR: the score is still
\* that of the frame that cleared the wave, the bonus counted once
C17_Witness ==
    /\ ev.op = "update" /\ ~ev.mid.taken
    /\ state = WAVE_CLEAR
    /\ eg.enemies = {}
    /\ player.score = ENEMY_ROWS * ENEMY_COLS * ENEMY_SCORE + WAVE_CLEAR_BONUS

\* C18: the session state changes only along the listed transitions: a key
\* event leads where the list says (SPACE in the menu with reset_game, SPACE
\* in WAVE_CLEAR through next_wave) and any other key leaves the state; an
\* update() leaves it, except that a Playing frame may end in GAME_OVER or
\* WAVE_CLEAR; ESCAPE in the menu and a QUIT event clear the running flag and
\* change nothing else, and nothing else changes the flag
C18_StateMachine ==
    [][LET Target(s, k) ==
               CASE s = MENU /\ k = "SPACE" -> PLAYING
                 [] s = MENU /\ k = "S" -> SETTINGS
                 [] s = SETTINGS /\ k = "ESCAPE" -> MENU
                 [] s = PLAYING /\ k = "ESCAPE" -> PAUSED
                 [] s = PAUSED /\ k = "ESCAPE" -> PLAYING
                 [] s = PAUSED /\ k = "Q" -> MENU
                 [] s = GAME_OVER /\ k = "SPACE" -> MENU
                 [] s = WAVE_CLEAR /\ k = "SPACE" -> PLAYING
                 [] OTHER -> s
           keyed == ev'.op \in {"keydown", "fire"}
           key == ev'.key
           leaving == (keyed /\ state = MENU /\ key = "ESCAPE") \/ ev'.op = "quit"
       IN /\ keyed => state' = Target(state, key)
          /\ ev'.op = "update"
             => \/ state' = state
                \/ state = PLAYING /\ state' \in {GAME_OVER, WAVE_CLEAR}
          /\ (keyed /\ state = MENU /\ key = "SPACE")
             => /\ player' = NewPlayer(SCREEN_WIDTH \div 2,
                                       SCREEN_HEIGHT - PLAYER_START_OFFSET_Y)
                /\ wave' = 1
                /\ Cardinality(eg'.enemies) = ENEMY_ROWS * ENEMY_COLS
                /\ player_bullets' = <<>> /\ enemy_bullets' = <<>>
                /\ bonuses' = <<>> /\ explosions' = <<>>
          /\ (keyed /\ state = WAVE_CLEAR /\ key = "SPACE")
             => /\ wave' = wave + 1
                /\ Cardinality(eg'.enemies) = ENEMY_ROWS * ENEMY_COLS
          /\ IF leaving
             THEN /\ running' = FALSE
                  /\ UNCHANGED <<state, selected_index, wave, high_score, particles_enabled,
                                 player, eg, player_bullets, enemy_bullets, bonuses,
                                 explosions, pool, now, frame>>
             ELSE running' = running]_vars

\* the second wave has begun: the last enemy fell in a Playing frame, the
\* session entered WAVE_CLEAR, and SPACE led back to PLAYING through next_wave
C18_Witness ==
    /\ ev.op = "keydown" /\ ev.key = "SPACE"
    /\ ev.pre.enemies = {}
    /\ state = PLAYING /\ wave = 2
    /\ running

\* C19: only PLAYING runs the simulation: an update() in any other session
\* state leaves the player, the formation, the bullets, the bonuses, the
\* explosions and the wave number as they were, and the fire key pressed in
\* any other state spawns no bullet
C19_OnlyPlayingTicks ==
    [][/\ (ev'.op = "update" /\ state # PLAYING)
          => /\ UNCHANGED <<player, eg, player_bullets, enemy_bullets, bonuses,
                            explosions, wave, pool>>
             /\ ev'.sounds = <<>>
       /\ (ev'.op \in {"keydown", "fire"} /\ ev'.key = "SPACE" /\ state # PLAYING)
          => /\ BulletIds(player_bullets') \subseteq BulletIds(player_bullets)
             /\ ev'.shots = 0
             /\ pool' = pool
             /\ ev'.sounds = <<>>]_vars

\* an update() of a paused game with a bullet in flight and an enemy whose
\* shot roll succeeds: nothing moved and nothing was fired
C19_Witness ==
    /\ ev.op = "update" /\ ~ev.mid.taken
    /\ state = PAUSED
    /\ enemy_bullets # <<>>
    /\ enemy_bullets = ev.pre.enemy_bullets
    /\ \E e \in eg.enemies : e.id \in ev.shooters
    /\ eg.enemies = ev.pre.enemies

\* C20: the high score is persisted on entering GAME_OVER and on entering
\* WAVE_CLEAR, so that while the session is in either state, whenever the key
\* that leaves it may come, high_score is at least the player's score
C20_HighScorePersisted ==
    state \in {GAME_OVER, WAVE_CLEAR} => high_score >= player.score

----------------------------------------------------------------------------
(* Properties of the high-score store *)

----------------------------------------------------------------------------
(* Properties of the session: builds of the formation *)

\* C22: SPACE in the menu runs reset_game and starts play from the same
\* simulation state whatever game came before: wave 1; a player centred on
\* (SCREEN_WIDTH / 2, SCREEN_HEIGHT - 50) with PLAYER_LIVES lives, score 0, no
\* shot made and no effect active; no player bullet, enemy bullet, bonus or
\* explosion; and ENEMY_ROWS * ENEMY_COLS live enemies, one on each cell of
\* the grid
C22_ResetGame ==
    [][(state = MENU /\ ev'.op = "keydown" /\ ev'.key = "SPACE") =>
          /\ state' = PLAYING
          /\ wave' = 1
          /\ player'.exists
          /\ CenterX(PlayerRect(player')) = SCREEN_WIDTH \div 2
          /\ CenterY(PlayerRect(player')) = SCREEN_HEIGHT - 50
          /\ player'.lives = PLAYER_LIVES
          /\ player'.score = 0
          /\ player'.last_shot_time = 0
          /\ ~player'.triple_shot_active
          /\ ~player'.rapid_fire_active
          /\ ~player'.shield_active
          /\ player_bullets' = <<>>
          /\ enemy_bullets' = <<>>
          /\ bonuses' = <<>>
          /\ explosions' = <<>>
          /\ Cardinality(eg'.enemies) = ENEMY_ROWS * ENEMY_COLS
          /\ \A row \in 0..(ENEMY_ROWS - 1), col \in 0..(ENEMY_COLS - 1) :
                \E e \in eg'.enemies :
                    /\ e.row = row
                    /\ e.x = col * ENEMY_SPACING_X + 50
                    /\ e.y = row * ENEMY_SPACING_Y + ENEMY_START_Y]_vars

\* a game started from the menu after a game that was lost with points
\* scored and a bonus and an explosion left on the screen
C22_Witness ==
    /\ ev.op = "keydown"
    /\ ev.key = "SPACE"
    /\ state = PLAYING
    /\ wave = 1
    /\ player.score = 0
    /\ ev.pre.player.exists
    /\ ev.pre.player.score > 0
    /\ ev.pre.player.lives = 0
    /\ ev.pre.bonuses # <<>>
    /\ ev.pre.explosions > 0

\* C23: a build leaves the formation active.  After the step that builds it
\* (SPACE in the menu: reset_game; SPACE in WAVE_CLEAR: next_wave) the
\* formation is not frozen and every enemy heads right with no drop pending,
\* and an update() that follows the build at once moves every enemy, whatever
\* freeze was collected before the build
C23_BuildIsActive ==
    /\ []((ev.op = "keydown" /\ ev.key = "SPACE" /\ state = PLAYING) =>
            /\ ~eg.frozen
            /\ \A e \in eg.enemies : e.direction = 1 /\ e.drop_distance = 0)
    /\ [][(ev.op = "keydown" /\ ev.key = "SPACE" /\ state = PLAYING /\ ev'.op = "update") =>
            \A e \in eg.enemies :
                \A o \in eg'.enemies : o.id = e.id => o.x # e.x \/ o.y # e.y]_vars

\* C24: SPACE in WAVE_CLEAR (next_wave) raises the wave number by exactly 1,
\* rebuilds the formation to ENEMY_ROWS * ENEMY_COLS live enemies and resumes
\* play; the wave number changes in no other step but SPACE in the menu
\* (reset_game), which sets it to 1; and it is at least 1 in every state
C24_WaveAdvance ==
    /\ [](wave >= 1)
    /\ [][/\ (state = WAVE_CLEAR /\ ev'.op = "keydown" /\ ev'.key = "SPACE") =>
               /\ wave' = wave + 1
               /\ Cardinality(eg'.enemies) = ENEMY_ROWS * ENEMY_COLS
               /\ state' = PLAYING
          /\ wave' # wave =>
               /\ ev'.op = "keydown"
               /\ ev'.key = "SPACE"
               /\ \/ state = WAVE_CLEAR /\ wave' = wave + 1
                  \/ state = MENU /\ wave' = 1]_vars

\* the second wave, just built from a cleared first wave of which nothing was
\* left
C24_Witness ==
    /\ ev.op = "keydown"
    /\ ev.key = "SPACE"
    /\ state = PLAYING
    /\ wave = 2
    /\ ev.pre.enemies = {}
    /\ Cardinality(eg.enemies) = ENEMY_ROWS * ENEMY_COLS

\* C25: elite density.  A formation just built (SPACE in the menu or in
\* WAVE_CLEAR) has ENEMY_ROWS * ENEMY_COLS enemies on as many distinct cells,
\* none of them elite in wave 1 and exactly
\* floor(R * C * min(0.30, 0.10 + 0.02 * (wave - 2))) of them elite from wave 2
\* on; the count is within the tolerance (floor - 1 .. floor + 2), is not
\* below that of any earlier wave and is at most 30% of the cells
C25_EliteDensity ==
    LET cells == ENEMY_ROWS * ENEMY_COLS
        \* floor(cells * min(0.30, 0.10 + 0.02 * (w - 2))), in hundredths
        expected(w) == IF w < 2 THEN 0
                       ELSE (cells * (IF 10 + 2 * (w - 2) < 30
                                      THEN 10 + 2 * (w - 2) ELSE 30)) \div 100
        elite_count == Cardinality({e \in eg.enemies : e.is_elite})
    IN (ev.op = "keydown" /\ ev.key = "SPACE" /\ state = PLAYING) =>
          /\ Cardinality(eg.enemies) = cells
          /\ Cardinality({<<e.x, e.y>> : e \in eg.enemies}) = cells
          /\ wave = 1 => elite_count = 0
          /\ wave >= 2 => elite_count = expected(wave)
          /\ expected(wave) - 1 <= elite_count
          /\ elite_count <= expected(wave) + 2
          /\ \A w \in 1..wave : expected(w) <= elite_count
          /\ 100 * elite_count <= 30 * cells

\* the formation of wave 13, past the wave the elite fraction reaches its
\* cap at: 15 of the 50 are elite
C25_Witness ==
    /\ ev.op = "keydown"
    /\ ev.key = "SPACE"
    /\ state = PLAYING
    /\ wave = 13
    /\ Cardinality({e \in eg.enemies : e.is_elite}) = 15

----------------------------------------------------------------------------
(* Properties of the battle: the shooters *)

\* C26: shooter selection does not depend on caching.  What
\* get_bottom_enemies returned to the enemy_shoot of a frame (the cache it
\* leaves) is what the recomputation returns for the formation of that
\* moment: the lowest enemy of every occupied column bucket, each a live
\* member of the formation
C26_CacheTransparent ==
    (ev.op = "update" /\ ev.mid.taken /\ ~ev.mid.frozen) =>
        /\ SeqRange(eg.cache) = SeqRange(RecomputeBottom(ev.mid.enemies))
        /\ \A id \in SeqRange(eg.cache) : \E e \in ev.mid.enemies : e.id = id

----------------------------------------------------------------------------
(* Properties of the formation: synchrony and the drop *)

\* C27: formation synchrony.  In every state all live enemies of the
\* formation have the same direction, -1 or +1, and the same pending drop
\* distance
C27_Synchrony ==
    \A e \in eg.enemies :
        /\ e.direction \in {-1, 1}
        /\ \A o \in eg.enemies :
              e.direction = o.direction /\ e.drop_distance = o.drop_distance

\* a formation of regular and elite enemies that has turned at the right edge
\* and is dropping, thawed since
C27_Witness ==
    /\ ev.op = "group_update"
    /\ ev.pre.frozen
    /\ ~eg.frozen
    /\ \E e \in eg.enemies : e.is_elite /\ e.direction = -1 /\ e.drop_distance > 0
    /\ \E e \in eg.enemies : ~e.is_elite /\ e.direction = -1 /\ e.drop_distance > 0

\* C28: the shooters are the bottom of their column.  What
\* get_bottom_enemies returned to the enemy_shoot of a frame is at most
\* ENEMY_COLS enemies, each a live enemy with no live enemy lower than it
\* among those whose centerx is within ENEMY_SPACING_X / 2 of its own, in
\* every wave and wherever the formation stands
C28_BottomOfColumn ==
    (ev.op = "update" /\ ev.mid.taken /\ ~ev.mid.frozen) =>
        /\ Len(eg.cache) <= ENEMY_COLS
        /\ \A id \in SeqRange(eg.cache) :
              \E e \in ev.mid.enemies :
                  /\ e.id = id
                  /\ \A o \in ev.mid.enemies :
                        LET d == CenterX(EnemyRect(o)) - CenterX(EnemyRect(e))
                        IN (2 * d <= ENEMY_SPACING_X /\ 2 * d >= -ENEMY_SPACING_X)
                              => Bottom(EnemyRect(o)) <= Bottom(EnemyRect(e))

----------------------------------------------------------------------------
(* Properties of the battle: the order of the collision stages *)

\* C29: the collision stages of a frame run in the order player bullets
\* against enemies, enemy bullets against the player, player against bonuses.
\* The first leaves the enemy bullets and the player's lives and shield as
\* they were, the second then leaves enemies, player bullets, bonuses and
\* score as the first left them, and the third leaves enemies and bullets as
\* the second left them.  So when an enemy bullet hits an unshielded player
\* in the frame a shield bonus is collected, the hit is resolved without the
\* shield: after the second stage a life is lost and no shield is active, and
\* after the third the shield is active until SHIELD_DURATION from now, the
\* life still lost (but for extra lives collected with it)
C29_StageOrder ==
    (ev.op = "update" /\ ev.s3.taken) =>
        LET m == ev.mid
            a == ev.s1
            b == ev.s2
            c == ev.s3
            extra == Cardinality({i \in 1..Len(ev.collected) : ev.collected[i] = EXTRA_LIFE})
        IN /\ a.enemy_bullets = m.enemy_bullets
           /\ a.player.lives = m.player.lives
           /\ a.player.shield_active = m.player.shield_active
           /\ b.enemies = a.enemies
           /\ b.player_bullets = a.player_bullets
           /\ b.bonuses = a.bonuses
           /\ b.player.score = a.player.score
           /\ c.enemies = b.enemies
           /\ c.player_bullets = b.player_bullets
           /\ c.enemy_bullets = b.enemy_bullets
           /\ (ev.hits # {} /\ ~m.player.shield_active
                  /\ \E i \in 1..Len(ev.collected) : ev.collected[i] = SHIELD) =>
                 /\ b.player.lives = m.player.lives - 1
                 /\ ~b.player.shield_active
                 /\ c.player.shield_active
                 /\ c.player.shield_end_time = now + SHIELD_DURATION
                 /\ c.player.lives = m.player.lives - 1 + extra
                 /\ player.lives = c.player.lives
                 /\ player.shield_active

\* an enemy bullet and a shield bonus reached the unshielded player in the
\* same frame: a life is gone and the shield is up
C29_Witness ==
    /\ ev.op = "update"
    /\ ev.s3.taken
    /\ ev.hits # {}
    /\ ev.collected = <<SHIELD>>
    /\ ~ev.mid.player.shield_active
    /\ player.lives = ev.mid.player.lives - 1
    /\ player.lives > 0
    /\ player.shield_active
    /\ state = PLAYING

\* C30: drop mechanics.  The update that reverses the formation queues a drop
\* of ENEMY_SPEED_Y for every enemy and consumes 2 of it at once; an update
\* of an enemy with a drop pending leaves its x and direction, lowers it by
\* min(drop_distance, 2) and takes 2 off the drop; an update of an enemy
\* with no drop pending leaves its y and moves it one step in its direction;
\* a frozen formation is left as it is.  In every state the pending drop is
\* an even number from 0 to ENEMY_SPEED_Y and an enemy stands, its pending
\* drop added, a whole number of drops of ENEMY_SPEED_Y below the row it was
\* built on: every reversal lowers it by exactly ENEMY_SPEED_Y before it
\* advances again
C30_DropMechanics ==
    /\ [](\A e \in eg.enemies :
             /\ e.drop_distance >= 0
             /\ e.drop_distance <= ENEMY_SPEED_Y
             /\ e.drop_distance % 2 = 0
             /\ e.y + e.drop_distance >= e.row * ENEMY_SPACING_Y + ENEMY_START_Y
             /\ (e.y + e.drop_distance - (e.row * ENEMY_SPACING_Y + ENEMY_START_Y))
                    % ENEMY_SPEED_Y = 0)
    /\ [][ev'.op = "group_update" =>
            /\ {e.id : e \in eg'.enemies} = {e.id : e \in eg.enemies}
            /\ \A e \in eg.enemies : \A o \in eg'.enemies : o.id = e.id =>
                  LET at_edge == \E a \in eg.enemies :
                                     \/ Right(EnemyRect(a)) >= SCREEN_WIDTH - 10
                                            /\ a.direction > 0
                                     \/ a.x <= 10 /\ a.direction < 0
                  IN CASE eg'.frozen -> o = e
                       [] at_edge ->
                            /\ e.drop_distance = 0
                            /\ o.direction = -e.direction
                            /\ o.drop_distance = ENEMY_SPEED_Y - 2
                            /\ o.x = e.x
                            /\ o.y = e.y + 2
                       [] e.drop_distance > 0 ->
                            /\ o.direction = e.direction
                            /\ o.x = e.x
                            /\ o.y = e.y + (IF e.drop_distance < 2 THEN e.drop_distance ELSE 2)
                            /\ o.drop_distance = e.drop_distance - 2
                       [] OTHER ->
                            /\ o.direction = e.direction
                            /\ o.drop_distance = 0
                            /\ o.y = e.y
                            /\ o.x = e.x + e.direction]_vars

\* the update after the one that ended a drop at the right edge: the
\* formation of regular and elite enemies, ENEMY_SPEED_Y below its rows,
\* has made its first step to the left
C30_Witness ==
    /\ ev.op = "group_update"
    /\ \E e \in eg.enemies : e.is_elite
    /\ \E e \in eg.enemies : ~e.is_elite
    /\ \A e \in ev.pre.enemies :
          /\ e.drop_distance = 0
          /\ e.direction = -1
          /\ e.y = e.row * ENEMY_SPACING_Y + ENEMY_START_Y + ENEMY_SPEED_Y
    /\ \A e \in eg.enemies : \E o \in ev.pre.enemies :
          o.id = e.id /\ e.x = o.x - 1 /\ e.y = o.y /\ e.drop_distance = 0

\* the bullets in flight, of both groups
Flying(pbs, ebs) == SeqRange(pbs) \cup SeqRange(ebs)

\* the whole box of a bullet is beyond an edge line of the screen, by the
\* class's own tests: above the top or below the bottom and, for the drifting
\* classes, left of the left or right of the right edge
Beyond(b) ==
    \/ b.y + BULLET_HEIGHT < 0
    \/ b.y > SCREEN_HEIGHT
    \/ /\ b.cls \in {"TripleShotBullet", "EliteBullet"}
       /\ (b.x + BULLET_WIDTH < 0 \/ b.x > SCREEN_WIDTH)

\* no pixel of the bullet's box is one of the screen's
OutOfView(b) ==
    ~colliderect(BulletRect(b), [x |-> 0, y |-> 0, w |-> SCREEN_WIDTH, h |-> SCREEN_HEIGHT])

\* C31 as stated: after a bullet update no live bullet's box lies fully outside
\* the viewport.  A box whose top is SCREEN_HEIGHT (or whose bottom is 0, left
\* is SCREEN_WIDTH, right is 0) has no pixel on the screen and stays live for
\* one more update.
C31_AsStated ==
    ev.op = "bullets_update" =>
        \A b \in Flying(player_bullets, enemy_bullets) : ~OutOfView(b)

\* C31: in a bullet update every bullet moves once; it is removed in that very
\* update iff its box is then beyond an edge line (bottom < 0, top >
\* SCREEN_HEIGHT or, for triple-shot and elite bullets, right < 0, left >
\* SCREEN_WIDTH) and is otherwise live where it moved to, in its own group; so
\* after the update no live bullet is beyond an edge line, none that is not
\* was removed, and no bullet appeared.  A box that only touches an edge line
\* from outside is not yet beyond it.  While the updates keep coming every
\* bullet in flight is eventually removed.
C31_BulletLifetime ==
    /\ [](ev.op = "bullets_update" =>
            /\ \A b \in SeqRange(ev.pre.player_bullets) :
                   IF Beyond(Bullet_move(b))
                   THEN b.id \notin BulletIds(player_bullets)
                   ELSE Bullet_move(b) \in SeqRange(player_bullets)
            /\ \A b \in SeqRange(ev.pre.enemy_bullets) :
                   IF Beyond(Bullet_move(b))
                   THEN b.id \notin BulletIds(enemy_bullets)
                   ELSE Bullet_move(b) \in SeqRange(enemy_bullets)
            /\ \A b \in Flying(player_bullets, enemy_bullets) : ~Beyond(b)
            /\ Len(player_bullets) <= Len(ev.pre.player_bullets)
            /\ Len(enemy_bullets) <= Len(ev.pre.enemy_bullets))
    /\ \A i \in 1..3 :
           (i \in BulletIds(player_bullets \o enemy_bullets))
               ~> (i \notin BulletIds(player_bullets \o enemy_bullets))

\* a triple-shot bullet has just left by the side, below the top edge, while
\* the two others of its shot fly on
C31_Witness ==
    /\ ev.op = "bullets_update"
    /\ Len(player_bullets) = 2
    /\ \E b \in SeqRange(ev.pre.player_bullets) :
           /\ b.cls = "TripleShotBullet"
           /\ b.id \notin BulletIds(player_bullets)
           /\ Bullet_move(b).y > 0
           /\ Bullet_move(b).x + BULLET_WIDTH < 0

\* C32: the player stays on the screen, 0 <= rect.left and rect.right <=
\* SCREEN_WIDTH, in every state reached from reset_game by updates under held
\* arrow keys.  An update with LEFT alone held leaves x unchanged at left ==
\* 0 and otherwise lowers it by PLAYER_SPEED; one with RIGHT alone held leaves
\* x unchanged at right == SCREEN_WIDTH and otherwise raises it by
\* PLAYER_SPEED; with both held the left move is made first and the right
\* move from where it ended; with none held x is unchanged; y never changes.
C32_PlayerInBounds ==
    /\ [](player.exists =>
            /\ 0 <= player.x
            /\ player.x + PLAYER_W <= SCREEN_WIDTH)
    /\ [][
          (ev'.op = "player_update" /\ player.exists) =>
              LET left == IF player.x = 0 THEN player.x ELSE player.x - PLAYER_SPEED
                  right(x) == IF x + PLAYER_W = SCREEN_WIDTH THEN x ELSE x + PLAYER_SPEED
              IN /\ ev'.key = "LEFT" => player'.x = left
                 /\ ev'.key = "RIGHT" => player'.x = right(player.x)
                 /\ ev'.key = "LEFT+RIGHT" => player'.x = right(left)
                 /\ ev'.key = "" => player'.x = player.x
                 /\ player'.y = player.y
                 /\ player'.exists
      ]_vars

\* the player, walked to the left edge, has just made a left move there and
\* stands where it stood
C32_Witness ==
    /\ ev.op = "player_update"
    /\ ev.key = "LEFT"
    /\ ev.pre.player.x = 0
    /\ player.x = 0

\* C33: in a tick of a formation that is not frozen, an elite enemy with no
\* drop pending (before the tick or queued by it) is displaced horizontally
\* by the integer truncation of 1.5 x ENEMY_SPEED_X x direction, and that
\* displacement is strictly larger in magnitude than a regular enemy's,
\* ENEMY_SPEED_X, in both directions.
C33_EliteFaster ==
    [][
       (ev'.op = "group_update" /\ ~eg'.frozen) =>
           \A e \in eg.enemies, f \in eg'.enemies :
               (e.id = f.id /\ e.drop_distance <= 0 /\ f.drop_distance <= 0) =>
                   LET dx == f.x - e.x
                   IN IF e.is_elite
                      THEN /\ dx = Trunc(3 * ENEMY_SPEED_X * e.direction, 2)
                           /\ (IF dx < 0 THEN -dx ELSE dx) > ENEMY_SPEED_X
                      ELSE dx = ENEMY_SPEED_X * e.direction
    ]_vars

\* the bullets a call of enemy_shoot added that left from under enemy e
ShotBy(e, before, after) ==
    {b \in SeqRange(after) \ SeqRange(before) :
        /\ b.y + BULLET_HEIGHT \div 2 = Bottom(EnemyRect(e))
        /\ b.x + BULLET_WIDTH \div 2 - CenterX(EnemyRect(e)) \in (-TRIPLE_OFFSET_X)..TRIPLE_OFFSET_X}

\* C34: the shot of an elite enemy at clock now is the spread iff now -
\* last_special_attack > 5000: three bullets leaving from 10 left of, at and
\* 10 right of its centre with x_direction -1, 0, +1 at ENEMY_BULLET_SPEED,
\* and last_special_attack becomes now; otherwise it is one straight bullet at
\* int(1.5 * ENEMY_BULLET_SPEED) and last_special_attack is kept.  An enemy is
\* built with last_special_attack 0, so its first shot is a spread whenever
\* the clock is past 5000, however lately it was built; the field changes by a
\* spread only, so that two spreads of an elite are more than 5000 ms apart.
C34_SpecialCadence ==
    /\ [](\A e \in eg.enemies : e.last_special_attack = 0
                                  \/ (e.is_elite /\ e.last_special_attack <= now))
    /\ [][
          ev'.op = "enemy_shoot" =>
              \A e \in eg.enemies :
                  LET f == EnemyById(eg'.enemies, e.id)
                      shot == ShotBy(e, enemy_bullets, enemy_bullets')
                      cx == CenterX(EnemyRect(e))
                      drift(b) == <<b.x + BULLET_WIDTH \div 2 - cx, b.x_direction, b.speed>>
                  IN IF e.is_elite /\ shot # {}
                     THEN IF now' - e.last_special_attack > SPECIAL_ATTACK_COOLDOWN
                          THEN /\ Cardinality(shot) = 3
                               /\ {drift(b) : b \in shot} =
                                      {<<-TRIPLE_OFFSET_X, -1, ENEMY_BULLET_SPEED>>,
                                       <<0, 0, ENEMY_BULLET_SPEED>>,
                                       <<TRIPLE_OFFSET_X, 1, ENEMY_BULLET_SPEED>>}
                               /\ f.last_special_attack = now'
                          ELSE /\ Cardinality(shot) = 1
                               /\ {drift(b) : b \in shot} =
                                      {<<0, 0, Trunc(3 * ENEMY_BULLET_SPEED, 2)>>}
                               /\ f.last_special_attack = e.last_special_attack
                     ELSE f.last_special_attack = e.last_special_attack
      ]_vars

\* an elite that fired a spread before has just fired its next one, and
\* another elite whose spread is less old a single bullet in the same call
C34_Witness ==
    /\ ev.op = "enemy_shoot"
    /\ \E e \in ev.pre.enemies, f \in eg.enemies :
           /\ e.id = f.id /\ e.is_elite
           /\ e.last_special_attack > 0
           /\ f.last_special_attack = now
    /\ \E e \in ev.pre.enemies, f \in eg.enemies :
           /\ e.id = f.id /\ e.is_elite
           /\ e.last_special_attack > 0
           /\ f.last_special_attack < now
           /\ ShotBy(e, ev.pre.enemy_bullets, enemy_bullets) # {}

\* C35: from a start with sound on, whatever keys the menu and the settings
\* menu are given, music_enabled implies sound_enabled.  A value key (LEFT or
\* RIGHT) on Sound turns sound off and music with it, or turns sound back on
\* and leaves music off; a value key on Music toggles music while sound is on
\* and changes nothing while sound is off; no other key changes either flag.
C35_MusicNeedsSound ==
    /\ [](music_enabled => sound_enabled)
    /\ [][
          LET value == /\ ev'.op = "keydown"
                       /\ state = SETTINGS
                       /\ ev'.key \in {"LEFT", "RIGHT"}
          IN /\ (value /\ selected_index = SOUND_INDEX /\ sound_enabled) =>
                    (~sound_enabled' /\ ~music_enabled')
             /\ (value /\ selected_index = SOUND_INDEX /\ ~sound_enabled) =>
                    (sound_enabled' /\ ~music_enabled')
             /\ (value /\ selected_index = MUSIC_INDEX /\ sound_enabled) =>
                    (sound_enabled' /\ music_enabled' = ~music_enabled)
             /\ (value /\ selected_index = MUSIC_INDEX /\ ~sound_enabled) =>
                    (~sound_enabled' /\ ~music_enabled')
             /\ ~(value /\ selected_index \in {SOUND_INDEX, MUSIC_INDEX}) =>
                    UNCHANGED <<sound_enabled, music_enabled>>
      ]_vars

\* with sound turned off, the Music toggle has just been tried: music is
\* still off
C35_Witness ==
    /\ ev.op = "keydown"
    /\ ev.key \in {"LEFT", "RIGHT"}
    /\ state = SETTINGS
    /\ selected_index = MUSIC_INDEX
    /\ ~sound_enabled
    /\ ~music_enabled

\* a bullet as the game sees it: everything but the identity of the object
Seen(b) ==
    [cls |-> b.cls, x |-> b.x, y |-> b.y, speed |-> b.speed, owner |-> b.owner,
     x_velocity |-> b.x_velocity, x_direction |-> b.x_direction]

\* C36: the bullets a shot adds to the game through BulletPool.get_bullet are,
\* one for one and in order, the bullets Player.shoot asked for (class,
\* position, speed, owner, x_velocity, x_direction), whether the pool made
\* them or took them from its queue, and none of them was in a sprite group
\* when it was handed out; the live bullets are distinct objects, no bullet
\* waiting in the queue is in a sprite group, and the queue never holds more
\* than pool_size bullets.
C36_PoolingUnobservable ==
    /\ [](/\ Len(pool.available) <= POOL_SIZE
          /\ BulletIds(pool.available) \cap BulletIds(player_bullets \o enemy_bullets) = {}
          /\ Cardinality(BulletIds(player_bullets \o enemy_bullets))
                 = Len(player_bullets) + Len(enemy_bullets)
          /\ Cardinality(BulletIds(pool.available)) = Len(pool.available))
    /\ [][
          (ev'.op = "fire" /\ ev'.shots > 0) =>
              LET asked == Player_shoot_bullets(player)
                  got == SubSeq(player_bullets', Len(player_bullets) + 1, Len(player_bullets'))
              IN /\ Len(got) = Len(asked)
                 /\ \A i \in 1..Len(got) :
                        /\ Seen(got[i]) = Seen(asked[i])
                        /\ got[i].id \notin BulletIds(player_bullets \o enemy_bullets)
                 /\ SubSeq(player_bullets', 1, Len(player_bullets)) = player_bullets
      ]_vars

\* a shot has just been served from the queue, which a bullet the pool had no
\* room for had found full: the recycled bullet flies from the player's gun
C36_Witness ==
    /\ ev.op = "fire"
    /\ ev.recycled # {}
    /\ Len(pool.available) = POOL_SIZE - 1
    /\ pool.created > POOL_SIZE + 1
    /\ POOL_SIZE + 1 \notin pool.active \cup BulletIds(pool.available)
    /\ \E b \in SeqRange(player_bullets) :
           b.id \in ev.recycled /\ b.y + BULLET_HEIGHT \div 2 = player.y

\* C37: every live enemy stays between the margins, 10 <= rect.left and
\* rect.right <= SCREEN_WIDTH - 10, in every frame from the build on,
\* whichever enemies were killed; and while a drop queued by a reversal is
\* pending the update of a formation that is not frozen triggers no reversal:
\* every enemy keeps its direction and its pending drop shrinks.
C37_InsideMargins ==
    /\ [](\A e \in eg.enemies :
              /\ EDGE_MARGIN <= e.x
              /\ e.x + EnemyRect(e).w <= SCREEN_WIDTH - EDGE_MARGIN)
    /\ [][
          (ev'.op = "update" /\ state = PLAYING /\ ~eg'.frozen) =>
              \A e \in eg.enemies, f \in eg'.enemies :
                  (e.id = f.id /\ e.drop_distance > 0) =>
                      /\ f.direction = e.direction
                      /\ f.drop_distance < e.drop_distance
                      /\ f.x = e.x
      ]_vars

\* a formation that met the right margin is halfway through its drop, its
\* outermost enemy standing at the margin and heading left
C37_Witness ==
    /\ ev.op = "update"
    /\ \E e \in eg.enemies :
           /\ e.x + EnemyRect(e).w = SCREEN_WIDTH - EDGE_MARGIN
           /\ e.direction < 0
           /\ e.drop_distance > 0
           /\ e.drop_distance < ENEMY_SPEED_Y
    /\ \E e \in ev.pre.enemies : e.drop_distance > 0

\* C38: in a game that stays in Playing with frames coming, a formation that
\* is not empty is eventually in the player zone and the game over, the
\* player's lives forced to 0: no update moves an enemy up, the update that
\* reverses the formation lowers every enemy in the same call and leaves a
\* drop pending, and a freeze in force eventually expires.
C38_InvasionInevitable ==
    /\ [][
          ev'.op = "update" =>
              \A e \in eg.enemies, f \in eg'.enemies :
                  e.id = f.id =>
                      /\ f.y >= e.y
                      /\ f.direction # e.direction =>
                             (f.y > e.y /\ f.drop_distance > 0)
      ]_vars
    /\ (eg.frozen ~> ~eg.frozen)
    /\ ((state = PLAYING /\ eg.enemies # {})
            ~> (/\ state = GAME_OVER
                /\ ev.branch = "invaded"
                /\ player.lives = 0
                /\ EnemyGroup_check_player_collision(eg, PlayerRect(player))))

\* the game is over by invasion after the formation, once frozen, went down
\* through more than one reversal
C38_Witness ==
    /\ state = GAME_OVER
    /\ ev.branch = "invaded"
    /\ eg.freeze_end_time > 0
    /\ ~eg.frozen
    /\ \E e \in eg.enemies : e.y > ENEMY_START_Y + (ENEMY_ROWS - 1) * ENEMY_SPACING_Y + ENEMY_SPEED_Y

\* C39: next_wave (SPACE in WAVE_CLEAR) raises the wave by one, replaces the
\* members of the formation and sets the state to PLAYING, and changes nothing
\* else: the player (position, lives, score, last_shot_time, effects and
\* their expiry times), the player bullets, enemy bullets and bonuses in
\* flight, the explosions, the bullet pool, the formation's freeze, the high
\* score and the settings are those of the cleared wave.
C39_NextWaveFrame ==
    [][(state = WAVE_CLEAR /\ ev'.op = "keydown" /\ ev'.key = "SPACE") =>
           /\ wave' = wave + 1
           /\ state' = PLAYING
           /\ eg'.enemies # eg.enemies
           /\ player' = player
           /\ player_bullets' = player_bullets
           /\ enemy_bullets' = enemy_bullets
           /\ bonuses' = bonuses
           /\ pool' = pool
           /\ explosions' = explosions
           /\ eg'.frozen = eg.frozen
           /\ eg'.freeze_end_time = eg.freeze_end_time
           /\ high_score' = high_score
           /\ highscore_json' = highscore_json
           /\ running' = running
           /\ particles_enabled' = particles_enabled
           /\ sound_enabled' = sound_enabled
           /\ music_enabled' = music_enabled
           /\ selected_index' = selected_index
    ]_vars

\* the second wave was just built around a player bullet, an enemy bullet and
\* a bonus left in flight by the first, the player standing left of the start
\* with a shield, rapid fire and an earlier shot's time
C39_Witness ==
    /\ ev.op = "keydown" /\ ev.key = "SPACE"
    /\ state = PLAYING
    /\ wave = 2
    /\ ev.pre.enemies = {}
    /\ Cardinality(eg.enemies) = ENEMY_ROWS * ENEMY_COLS
    /\ player_bullets # <<>> /\ enemy_bullets # <<>> /\ bonuses # <<>>
    /\ player.x < NewPlayer(SCREEN_WIDTH \div 2, SCREEN_HEIGHT - PLAYER_START_OFFSET_Y).x
    /\ player.lives < PLAYER_LIVES
    /\ player.score > 0
    /\ player.last_shot_time > 0
    /\ player.shield_active /\ player.rapid_fire_active

\* C40: pausing does not suspend the timed effects.  The expiry times of
\* shield, rapid fire and freeze and their flags are left alone by the keys
\* that pause and resume, by next_wave and by every update() in Paused and
\* WaveClear, whatever time passes; an expiry time changes only in a Playing
\* frame that picks the effect up, to that frame's clock plus the duration
\* (the shield's also to 0, with the hit that uses the shield up or with the
\* new player of reset_game, like rapid fire's); and after every Playing frame
\* an effect still flagged has not passed its expiry time, so an effect whose
\* expiry passed during the pause is inactive from the first frame on: the
\* shield takes no hit in it, the cooldown is the plain one and the formation
\* is updated.
C40_PauseDoesNotSuspend ==
    [][LET Timers(p, g) == <<p.shield_active, p.shield_end_time,
                             p.rapid_fire_active, p.rapid_fire_end_time,
                             g.frozen, g.freeze_end_time>>
           played == state = PLAYING /\ ev'.op = "update"
           reset == state = MENU /\ ev'.op = "keydown" /\ ev'.key = "SPACE"
           ShieldHit == \E i \in 1..Len(ev'.sounds) : ev'.sounds[i] = "shield_hit"
       IN /\ (state \in {PAUSED, WAVE_CLEAR} \/ ev'.key = "ESCAPE")
                 => Timers(player', eg') = Timers(player, eg)
          /\ player'.shield_end_time # player.shield_end_time
                 => \/ played /\ player'.shield_end_time = now' + SHIELD_DURATION
                    \/ /\ played /\ ShieldHit
                       /\ player'.shield_end_time = 0 /\ ~player'.shield_active
                    \/ /\ reset
                       /\ player'.shield_end_time = 0 /\ ~player'.shield_active
          /\ player'.rapid_fire_end_time # player.rapid_fire_end_time
                 => \/ played /\ player'.rapid_fire_end_time = now' + RAPID_FIRE_DURATION
                    \/ /\ reset
                       /\ player'.rapid_fire_end_time = 0 /\ ~player'.rapid_fire_active
          /\ eg'.freeze_end_time # eg.freeze_end_time
                 => played /\ eg'.freeze_end_time = now' + FREEZE_DURATION
          /\ played =>
                 /\ player'.shield_active => now' <= player'.shield_end_time
                 /\ player'.rapid_fire_active => now' <= player'.rapid_fire_end_time
                 /\ eg'.frozen => now' <= eg'.freeze_end_time
                 /\ now' > player.shield_end_time =>
                        /\ ~ShieldHit
                        /\ ev'.hit_calls > 0 =>
                               ev'.s2.player.lives = ev'.s1.player.lives - 1
                 /\ now' > player.rapid_fire_end_time =>
                        EffectiveCooldown(ev'.mid.player, now') = PLAYER_SHOOT_COOLDOWN
                 /\ (now' > eg.freeze_end_time /\ eg.enemies # {} /\ eg'.enemies # {}) =>
                        \E e \in eg.enemies, f \in eg'.enemies :
                            e.id = f.id /\ <<f.x, f.y>> # <<e.x, e.y>>
    ]_vars

\* the first frame after a pause that outlasted shield, rapid fire and freeze
\* alike: the three flags, set when the game was taken up again, are cleared,
\* and the bullet that met the player in this frame cost a life
C40_Witness ==
    /\ ev.op = "update" /\ ev.mid.taken
    /\ state = PLAYING
    /\ ev.pre.player.shield_active /\ ev.pre.player.rapid_fire_active /\ ev.pre.frozen
    /\ now > ev.pre.player.shield_end_time + FrameTime
    /\ now > ev.pre.player.rapid_fire_end_time + FrameTime
    /\ now > ev.pre.freeze_end_time + FrameTime
    /\ ~player.shield_active /\ ~player.rapid_fire_active /\ ~eg.frozen
    /\ ev.hit_calls > 0
    /\ player.lives = ev.pre.player.lives - 1

====
